---- MODULE Spec2Model ----
(***************************************************************************)
(* A model of the prompt-to-scene-breakdown core of aaronkjin/slop:        *)
(* the prompt validator (lib/openai/utils), the scene analysis service     *)
(* (lib/openai/scene-analysis.ts), the completion client it uses           *)
(* (lib/openai/client.ts), the route POST /api/openai/analyze with its     *)
(* request validation and rate limiter (lib/utils/validation.ts), and the  *)
(* page that posts to it (Home.handleGenerate).                            *)
(*                                                                         *)
(* Strings are TLA+ strings; a character is a string of length 1.  The     *)
(* completion service is an oracle: every call either fails or returns     *)
(* one text of a bounded set.  An operator that needs an intermediate      *)
(* value of the code several times takes it as a parameter (XxxOf), so     *)
(* that it is computed once.                                               *)
(***************************************************************************)
EXTENDS Integers, Sequences, FiniteSets, TLC

VARIABLES
    userPrompt,          \* the argument of analyzePrompt
    apiKey,              \* process.env.OPENAI_API_KEY is set
    openaiClient,        \* client.ts: the lazily initialised global client
    pc,                  \* the await point analyzePrompt has reached
    sanitizedPrompt,     \* validation.sanitizedPrompt
    complexityAnalysis,  \* the result of detectComplexity
    characterAnalysis,   \* the result of identifyCharacters
    scenes,              \* the scenes of the breakdown
    descriptions,        \* generateCharacterDescriptions: the list being built
    calls,               \* the completion calls issued so far, in order
    result,              \* what analyzePrompt resolved to
    attempts,            \* the failed requests of the completion call in flight
    request,             \* route.ts: the request POST is handling
    response,            \* route.ts: the response POST returned
    requests,            \* SimpleRateLimit.requests: identifier -> timestamps
    now,                 \* Date.now()
    allowedAt,           \* identifier -> every timestamp check() has allowed
    tracked,             \* SimpleRateLimit.requests: the identifiers that have an entry
    checked,             \* the last call of check: its identifier and what it returned
    uncleaned,           \* the entries of a limiter on which cleanup never runs
    homePrompt,          \* Home: the state prompt, the text of the prompt box
    isGenerating,        \* Home: the state isGenerating
    lastResult,          \* Home: the state lastResult
    fetchState,          \* Home: the fetch of handleGenerate
    posts,               \* Home: the POSTs sent to /api/openai/analyze
    texts,               \* a text and the results of sanitizing it again and again
    textValidation,      \* the result of validatePromptText(texts[1])
    slicing              \* a prompt, a scene count and the scenes sliced from them

\* the state of analyzePrompt and of the client it calls
analysisVars == <<userPrompt, apiKey, openaiClient, pc, sanitizedPrompt,
                  complexityAnalysis, characterAnalysis, scenes, descriptions,
                  calls, result, attempts>>

routeVars == <<request, response>>

limiterVars == <<requests, now, allowedAt, tracked, checked, uncleaned>>

homeVars == <<homePrompt, isGenerating, lastResult, fetchState, posts>>

textVars == <<texts, textValidation, slicing>>

\* what analyzePrompt does not touch
outerVars == <<routeVars, limiterVars, homeVars, textVars>>

vars == <<analysisVars, outerVars>>

\* an absent string
None == "<none>"

\* an absent object: null or undefined where the code holds an object
Null == [absent |-> TRUE]

(***************************************************************************)
(* Strings                                                                 *)
(***************************************************************************)

Min(a, b) == IF a < b THEN a ELSE b
Max(a, b) == IF a > b THEN a ELSE b

CharAt(s, i) == SubSeq(s, i, i)

\* JS substring(from, to): 0-based, to exclusive, both clamped to the length
Substring(s, from, to) ==
    IF Min(from, Len(s)) >= Min(to, Len(s)) THEN ""
    ELSE SubSeq(s, Min(from, Len(s)) + 1, Min(to, Len(s)))

StartsAt(s, kw, i) ==
    /\ i >= 1
    /\ i + Len(kw) - 1 <= Len(s)
    /\ SubSeq(s, i, i + Len(kw) - 1) = kw

Includes(s, kw) == \E i \in 1..(Len(s) - Len(kw) + 1) : StartsAt(s, kw, i)

UpperLetters == "ABCDEFGHIJKLMNOPQRSTUVWXYZ"
LowerLetters == "abcdefghijklmnopqrstuvwxyz"
Digits == "0123456789"

CharsOf(s) == {CharAt(s, i) : i \in 1..Len(s)}

LowerMap ==
    [c \in CharsOf(UpperLetters) |->
        CharAt(LowerLetters, CHOOSE k \in 1..Len(UpperLetters) : CharAt(UpperLetters, k) = c)]

UpperMap ==
    [c \in CharsOf(LowerLetters) |->
        CharAt(UpperLetters, CHOOSE k \in 1..Len(LowerLetters) : CharAt(LowerLetters, k) = c)]

\* \w of a JS regular expression
WordChars == CharsOf(UpperLetters) \cup CharsOf(LowerLetters) \cup CharsOf(Digits) \cup {"_"}

\* \s of a JS regular expression (the ASCII part)
Whitespace == {" ", "\t", "\n", "\r", "\f"}

DigitChars == CharsOf(Digits)

WordOrWs == WordChars \cup Whitespace

RECURSIVE MapRange(_, _, _, _)
MapRange(F(_, _), s, a, b) ==
    \* the concatenation of F(s, i) for i in a..b
    IF a > b THEN ""
    ELSE IF a = b THEN F(s, a)
    ELSE MapRange(F, s, a, (a + b) \div 2) \o MapRange(F, s, (a + b) \div 2 + 1, b)

MapChars(F(_, _), s) == MapRange(F, s, 1, Len(s))

LowerAt(s, i) == IF CharAt(s, i) \in DOMAIN LowerMap THEN LowerMap[CharAt(s, i)] ELSE CharAt(s, i)

UpperAt(s, i) == IF CharAt(s, i) \in DOMAIN UpperMap THEN UpperMap[CharAt(s, i)] ELSE CharAt(s, i)

toLowerCase(s) == MapChars(LowerAt, s)

toUpperCase(s) == MapChars(UpperAt, s)

IsWs(s, i) == i >= 1 /\ i <= Len(s) /\ CharAt(s, i) \in Whitespace

IsWord(s, i) == i >= 1 /\ i <= Len(s) /\ CharAt(s, i) \in WordChars

\* \b between positions i-1 and i (1-based; i = Len(s)+1 is the end)
WordBoundary(s, i) == IsWord(s, i - 1) # IsWord(s, i)

\* the end (exclusive) of the run of characters of class cls that starts at i
RunEnd(s, cls, i) ==
    CHOOSE e \in i..(Len(s) + 1) :
        /\ e > Len(s) \/ CharAt(s, e) \notin cls
        /\ \A j \in i..(e - 1) : CharAt(s, j) \in cls

\* the index of the last character outside cls, 0 when there is none
LastOutside(s, cls) ==
    CHOOSE b \in 0..Len(s) :
        /\ b = 0 \/ CharAt(s, b) \notin cls
        /\ \A j \in (b + 1)..Len(s) : CharAt(s, j) \in cls

trim(s) == SubSeq(s, RunEnd(s, Whitespace, 1), LastOutside(s, Whitespace))

\* the first index >= from where kw starts in s, 0 when there is none
IndexOf(s, kw, from) ==
    IF \E i \in from..(Len(s) - Len(kw) + 1) : StartsAt(s, kw, i)
    THEN CHOOSE i \in from..(Len(s) - Len(kw) + 1) :
            StartsAt(s, kw, i) /\ \A j \in from..(i - 1) : ~StartsAt(s, kw, j)
    ELSE 0

(***************************************************************************)
(* lib/openai/utils: sanitizePromptForVideo and validatePrompt             *)
(***************************************************************************)

RECURSIVE RemoveTags(_)
RemoveTagAt(s, i, j) ==
    \* the tag is s[i..j]; j = 0 when no ">" follows the first "<"
    IF j = 0 THEN s ELSE SubSeq(s, 1, i - 1) \o RemoveTags(SubSeq(s, j + 1, Len(s)))

FirstTag(s, i) == RemoveTagAt(s, i, IF i = 0 THEN 0 ELSE IndexOf(s, ">", i + 1))

\* .replace(/<[^>]*>/g, '')
RemoveTags(s) == FirstTag(s, IndexOf(s, "<", 1))

\* <script\b ... </script> (case-insensitive) opens at i of the lower-cased low
ScriptOpensAt(low, i) ==
    /\ StartsAt(low, "<script", i)
    /\ WordBoundary(low, i + 7)
    /\ IndexOf(low, "</script>", i + 7) > 0

RECURSIVE RemoveScripts(_)
RemoveScriptAt(s, low, i) ==
    SubSeq(s, 1, i - 1) \o RemoveScripts(SubSeq(s, IndexOf(low, "</script>", i + 7) + 9, Len(s)))

RemoveScriptsOf(s, low) ==
    IF \E i \in 1..Len(s) : ScriptOpensAt(low, i)
    THEN RemoveScriptAt(s, low,
            CHOOSE i \in 1..Len(s) :
                ScriptOpensAt(low, i) /\ \A j \in 1..(i - 1) : ~ScriptOpensAt(low, j))
    ELSE s

\* .replace(/<script\b[^<]*(?:(?!<\/script>)<[^<]*)*<\/script>/gi, '')
RemoveScripts(s) == RemoveScriptsOf(s, toLowerCase(s))

\* .replace(/[<>]/g, '')
DropAngleAt(s, i) == IF CharAt(s, i) \in {"<", ">"} THEN "" ELSE CharAt(s, i)

\* the characters [^\w\s\.,!?;:'"()\-#@&*+=/%] keeps
VideoChars ==
    WordOrWs \cup {".", ",", "!", "?", ";", ":", "'", "\"", "(", ")", "-",
                   "#", "@", "&", "*", "+", "=", "/", "%"}

KeepVideoCharAt(s, i) == IF CharAt(s, i) \in VideoChars THEN CharAt(s, i) ELSE ""

\* .replace(/\s+/g, ' '): a run of whitespace becomes one space
CollapseWsAt(s, i) ==
    IF ~IsWs(s, i) THEN CharAt(s, i)
    ELSE IF IsWs(s, i - 1) THEN "" ELSE " "

sanitizePromptForVideo(input) ==
    trim(MapChars(CollapseWsAt,
         MapChars(KeepVideoCharAt,
         MapChars(DropAngleAt,
         RemoveScripts(RemoveTags(trim(input)))))))

minLength == 1
maxLength == 400

\* DEFAULT_VALIDATION_CONSTRAINTS.allowedPattern: /^[\w\s\.,!?;:'"()\-]+$/
AllowedChars == WordOrWs \cup {".", ",", "!", "?", ";", ":", "'", "\"", "(", ")", "-"}

allowedPattern(s) == Len(s) >= 1 /\ \A i \in 1..Len(s) : CharAt(s, i) \in AllowedChars

forbiddenWords == {"test-forbidden-word"}

Invalid(error, code) ==
    [isValid |-> FALSE, error |-> error, code |-> code, sanitizedPrompt |-> None]

\* validatePrompt after "const sanitized = sanitizePromptForVideo(prompt)"
validateSanitized(sanitized) ==
    IF trim(sanitized) = ""
    THEN Invalid("Prompt is required and cannot be empty", "PROMPT_TOO_SHORT")
    ELSE IF Len(sanitized) < minLength
    THEN Invalid("Prompt must be at least 1 character long", "PROMPT_TOO_SHORT")
    ELSE IF Len(sanitized) > maxLength
    THEN Invalid("Prompt must be no more than 400 characters long", "PROMPT_TOO_LONG")
    ELSE IF ~allowedPattern(sanitized)
    THEN Invalid("Prompt contains invalid characters", "INVALID_CHARACTERS")
    ELSE IF \E word \in forbiddenWords : Includes(toLowerCase(sanitized), toLowerCase(word))
    THEN Invalid("Prompt contains inappropriate content", "FORBIDDEN_CONTENT")
    ELSE [isValid |-> TRUE, error |-> None, code |-> None, sanitizedPrompt |-> sanitized]

validatePrompt(prompt) == validateSanitized(sanitizePromptForVideo(prompt))

(***************************************************************************)
(* Searching and splitting                                                 *)
(***************************************************************************)

\* the length of the first alternative of alts that matches at i, 0 if none
MatchLen(s, alts, i) ==
    IF \E k \in DOMAIN alts : StartsAt(s, alts[k], i)
    THEN Len(alts[CHOOSE k \in DOMAIN alts :
                    StartsAt(s, alts[k], i) /\ \A l \in 1..(k - 1) : ~StartsAt(s, alts[l], i)])
    ELSE 0

\* the index of the leftmost match of an alternative at or after from, 0 if none
FirstMatch(s, alts, from) ==
    IF \E i \in from..Len(s) : MatchLen(s, alts, i) > 0
    THEN CHOOSE i \in from..Len(s) :
            MatchLen(s, alts, i) > 0 /\ \A j \in from..(i - 1) : MatchLen(s, alts, j) = 0
    ELSE 0

RECURSIVE SplitLength(_, _, _)
SplitLengthAt(s, alts, i) ==
    IF i = 0 THEN 1 ELSE 1 + SplitLength(s, alts, i + MatchLen(s, alts, i))

\* s.split(/alt1|alt2|.../).length for non-empty literal alternatives: one
\* more than the number of non-overlapping leftmost matches
SplitLength(s, alts, from) == SplitLengthAt(s, alts, FirstMatch(s, alts, from))

\* the index at or after from where a separator starts, 0 if none: ends[i] is
\* the end (exclusive) of the separator that starts at i, or 0
FirstSeparator(ends, from) ==
    IF \E i \in from..Len(ends) : ends[i] > 0
    THEN CHOOSE i \in from..Len(ends) : ends[i] > 0 /\ \A j \in from..(i - 1) : ends[j] = 0
    ELSE 0

RECURSIVE SplitEnds(_, _, _)
SplitAt(s, ends, from, i) ==
    IF i = 0 THEN <<SubSeq(s, from, Len(s))>>
    ELSE <<SubSeq(s, from, i - 1)>> \o SplitEnds(s, ends, ends[i])

\* the pieces of s from index from on, between the separators of ends
SplitEnds(s, ends, from) == SplitAt(s, ends, from, FirstSeparator(ends, from))

\* s.split(separator): SepEnd(s, i) is the end (exclusive) of the separator
\* that starts at i, 0 when none starts there
SplitBy(SepEnd(_, _), s) == SplitEnds(s, [i \in 1..Len(s) |-> SepEnd(s, i)], 1)

NewlineEnd(s, i) == IF CharAt(s, i) = "\n" THEN i + 1 ELSE 0

\* text.split('\n')
SplitLines(s) == SplitBy(NewlineEnd, s)

SentenceEnd(s, i) == IF CharAt(s, i) \in {".", "!", "?"} THEN RunEnd(s, {".", "!", "?"}, i) ELSE 0

\* text.split(/[.!?]+/)
SplitSentences(s) == SplitBy(SentenceEnd, s)

\* the end of scene\s*\d+ (case-insensitive) at i, given the first digit's place d
SceneNumberEndAt(s, i, d) ==
    IF /\ toLowerCase(SubSeq(s, i, Min(Len(s), i + 4))) = "scene"
       /\ d <= Len(s)
       /\ CharAt(s, d) \in DigitChars
    THEN RunEnd(s, DigitChars, d) ELSE 0

SceneNumberEnd(s, i) == SceneNumberEndAt(s, i, RunEnd(s, Whitespace, Min(i + 5, Len(s) + 1)))

\* sceneText.split(/scene\s*\d+/i)
SplitSceneNumbers(s) == SplitBy(SceneNumberEnd, s)

RECURSIVE FilterFrom(_, _, _)
FilterFrom(Test(_), seq, k) ==
    IF k > Len(seq) THEN <<>>
    ELSE (IF Test(seq[k]) THEN <<seq[k]>> ELSE <<>>) \o FilterFrom(Test, seq, k + 1)

\* array.filter(test)
Filter(seq, Test(_)) == FilterFrom(Test, seq, 1)

\* array.slice(0, n)
Slice(seq, n) == SubSeq(seq, 1, Min(n, Len(seq)))

\* array.map(s => s.trim())
TrimAll(seq) == [k \in DOMAIN seq |-> trim(seq[k])]

\* keywords.some(keyword => lower.includes(keyword))
IncludesAny(lower, keywords) == \E keyword \in keywords : Includes(lower, keyword)

SentenceHas(sentence, keywords) == IncludesAny(toLowerCase(sentence), keywords)

\* the trimmed sentences of text that contain one of the keywords, in order
MatchingSentences(text, keywords) ==
    LET Hit(sentence) == SentenceHas(sentence, keywords)
    IN  TrimAll(Filter(SplitSentences(text), Hit))

FirstOrEmpty(seq) == IF seq = <<>> THEN "" ELSE seq[1]

extractDetail(text, keywords) == FirstOrEmpty(MatchingSentences(text, keywords))

maxElements == 3

extractUniqueDetails(text) ==
    Slice(MatchingSentences(text, {"distinctive", "unique", "specific", "particular"}), maxElements)

extractElements(text, keywords) == Slice(MatchingSentences(text, keywords), maxElements)

\* /\b(w1|w2|...)\b/ on the lower-cased text
HasWordIn(low, words) ==
    \E i \in 1..Len(low) : \E w \in words :
        StartsAt(low, w, i) /\ WordBoundary(low, i) /\ WordBoundary(low, i + Len(w))

\* /\b(w1|w2|...)\b/i.test(s)
HasWord(s, words) == HasWordIn(toLowerCase(s), words)

(***************************************************************************)
(* scene-analysis.ts: the complexity classifier                            *)
(***************************************************************************)

strongSequenceKeywords ==
    <<"then ", "next ", "after that", "later ", "finally ",
      "first ", "second ", "third ", "step 1", "step 2", "step 3",
      "part 1", "part 2", "part 3">>

multiSceneLength == 250

sequenceCount(lowerPrompt) ==
    Cardinality({k \in DOMAIN strongSequenceKeywords :
                    Includes(lowerPrompt, strongSequenceKeywords[k])})

hasTemporalProgression(lowerPrompt) ==
    /\ Includes(lowerPrompt, "then ")
    /\ \/ Includes(lowerPrompt, "after")
       \/ Includes(lowerPrompt, "later")
       \/ Includes(lowerPrompt, "finally")

\* a faulty variant of multiSceneIndicators: the length condition is left out
multiSceneIndicatorsAnyLength(prompt, lowerPrompt) ==
    sequenceCount(lowerPrompt) >= 2 /\ hasTemporalProgression(lowerPrompt)

\* detectMultiSceneIndicators after "const lowerPrompt = prompt.toLowerCase()"
multiSceneIndicators(prompt, lowerPrompt) ==
    /\ sequenceCount(lowerPrompt) >= 2
    /\ Len(prompt) > multiSceneLength
    /\ hasTemporalProgression(lowerPrompt)

\* a faulty variant of detectMultiSceneIndicators: the analysis text is trusted
detectMultiSceneIndicatorsByAnalysis(prompt, analysis) ==
    \/ Includes(toLowerCase(analysis), "multiple scenes")
    \/ multiSceneIndicators(prompt, toLowerCase(prompt))

detectMultiSceneIndicators(prompt, analysis) == multiSceneIndicators(prompt, toLowerCase(prompt))

RECURSIVE parseInt(_)
\* parseInt of a string of decimal digits
parseInt(digits) ==
    IF digits = "" THEN 0
    ELSE 10 * parseInt(SubSeq(digits, 1, Len(digits) - 1))
         + (CHOOSE d \in 0..9 : CharAt(Digits, d + 1) = CharAt(digits, Len(digits)))

\* (\d+)\s*scene matches at i of the lower-cased text
NumberSceneAt(low, i) ==
    /\ CharAt(low, i) \in DigitChars
    /\ StartsAt(low, "scene", RunEnd(low, Whitespace, RunEnd(low, DigitChars, i)))

numberMatchAt(low, i) == IF i = 0 THEN None ELSE SubSeq(low, i, RunEnd(low, DigitChars, i) - 1)

numberMatchIn(low) ==
    numberMatchAt(low,
        IF \E i \in 1..Len(low) : NumberSceneAt(low, i)
        THEN CHOOSE i \in 1..Len(low) :
                NumberSceneAt(low, i) /\ \A j \in 1..(i - 1) : ~NumberSceneAt(low, j)
        ELSE 0)

\* analysis.match(/(\d+)\s*scene/i): group 1 of the leftmost match, None if none
numberMatch(analysis) == numberMatchIn(toLowerCase(analysis))

sequenceIndicators == <<"then", "next", "after", "finally", "first", "second", "third">>

RECURSIVE SumMatches(_, _)
\* the sum over the first k indicators of lowerPrompt.split(indicator).length - 1
SumMatches(lowerPrompt, k) ==
    IF k = 0 THEN 0
    ELSE SumMatches(lowerPrompt, k - 1)
         + (SplitLength(lowerPrompt, <<sequenceIndicators[k]>>, 1) - 1)

maxScenes == 5

\* estimateSceneCount after "const numberMatch = analysis.match(...)"
sceneCountFor(prompt, match) ==
    IF match # None THEN Min(parseInt(match), maxScenes)
    ELSE Min(Max(1 + SumMatches(toLowerCase(prompt), Len(sequenceIndicators)), 2), maxScenes)

estimateSceneCount(prompt, analysis) == sceneCountFor(prompt, numberMatch(analysis))

\* assessComplexity after "const lowerAnalysis = analysis.toLowerCase()"
complexityIn(prompt, analysis, lowerAnalysis) ==
    IF IncludesAny(lowerAnalysis, {"simple", "basic", "straightforward", "single"})
    THEN "simple"
    ELSE IF IncludesAny(lowerAnalysis, {"moderate", "medium", "some", "few"})
    THEN "moderate"
    ELSE IF IncludesAny(lowerAnalysis, {"complex", "complicated", "multiple", "many", "several"})
    THEN "complex"
    ELSE IF Len(prompt) > 200 \/ detectMultiSceneIndicators(prompt, analysis) THEN "complex"
    ELSE IF Len(prompt) > 100 THEN "moderate"
    ELSE "simple"

assessComplexity(prompt, analysis) == complexityIn(prompt, analysis, toLowerCase(analysis))

\* the positions e such that s[i..e-1] is a non-empty run of whitespace (\s+)
WsEnds(s, i) == {e \in (i + 1)..(Len(s) + 1) : \A j \in i..(e - 1) : IsWs(s, j)}

\* "." of a JS regular expression matches anything but a line terminator
NoLineBreak(s, a, b) == \A j \in a..b : CharAt(s, j) \notin {"\n", "\r"}

\* the ends (exclusive) of the matches of
\* (then\s+|next\s+|after\s+that|finally\s+|first\s+.*second\s+|step\s+1.*step\s+2)
\* that start at i
SequenceWordEnds(s, i) ==
    {e \in WsEnds(s, i + 4) : StartsAt(s, "then", i)}
    \cup {e \in WsEnds(s, i + 4) : StartsAt(s, "next", i)}
    \cup {e + 4 : e \in {x \in WsEnds(s, i + 5) : StartsAt(s, "after", i) /\ StartsAt(s, "that", x)}}
    \cup {e \in WsEnds(s, i + 7) : StartsAt(s, "finally", i)}
    \cup UNION {UNION {WsEnds(s, p + 6) :
                         p \in {q \in e1..Len(s) : StartsAt(s, "second", q) /\ NoLineBreak(s, e1, q - 1)}} :
                  e1 \in {x \in WsEnds(s, i + 5) : StartsAt(s, "first", i)}}
    \cup UNION {UNION {{e2 + 1 : e2 \in {y \in WsEnds(s, p + 4) : StartsAt(s, "2", y)}} :
                         p \in {q \in (e1 + 1)..Len(s) :
                                  StartsAt(s, "step", q) /\ NoLineBreak(s, e1 + 1, q - 1)}} :
                  e1 \in {x \in WsEnds(s, i + 4) : StartsAt(s, "step", i) /\ StartsAt(s, "1", x)}}

strongSequenceWordsIn(low) ==
    \E i \in 1..Len(low) :
        /\ CharAt(low, i) \in {"t", "n", "a", "f", "s"}
        /\ WordBoundary(low, i)
        /\ \E e \in SequenceWordEnds(low, i) : WordBoundary(low, e)

\* /\b(then\s+|next\s+|after\s+that|finally\s+|first\s+.*second\s+|step\s+1.*step\s+2)\b/i.test(prompt)
strongSequenceWords(prompt) == strongSequenceWordsIn(toLowerCase(prompt))

stepWords == <<"then", "next", "after", "finally">>

fallbackScenes == 3

\* prompt.toLowerCase().split(/then|next|after|finally/).length, which is also
\* prompt.split(/then|next|after|finally/i).length
stepSplits(prompt) == SplitLength(toLowerCase(prompt), stepWords, 1)

fallbackResult(isMultiScene, sceneCount) ==
    [isMultiScene |-> isMultiScene,
     sceneCount |-> sceneCount,
     complexity |-> IF isMultiScene
                    THEN (IF sceneCount > 2 THEN "complex" ELSE "moderate")
                    ELSE "simple"]

\* a faulty variant of fallbackCount: the number of segments is not capped
fallbackCountUncapped(isMultiScene, splits) ==
    fallbackResult(isMultiScene, IF isMultiScene THEN splits ELSE 1)

fallbackCount(isMultiScene, splits) ==
    fallbackResult(isMultiScene, IF isMultiScene THEN Min(splits, fallbackScenes) ELSE 1)

\* a faulty variant of fallbackSplit: the number of segments is not checked
fallbackSplitAnySplits(prompt, splits) ==
    fallbackCount(strongSequenceWords(prompt) /\ Len(prompt) > multiSceneLength, splits)

\* fallbackComplexityAnalysis, given the length of the split
fallbackSplit(prompt, splits) ==
    fallbackCount(strongSequenceWords(prompt) /\ Len(prompt) > multiSceneLength /\ splits > 3,
                  splits)

fallbackComplexityAnalysis(prompt) == fallbackSplit(prompt, stepSplits(prompt))

(***************************************************************************)
(* scene-analysis.ts: the character identifier                             *)
(***************************************************************************)

\* .replace(/[^\w\s]/g, '')
KeepWordOrWsAt(s, i) == IF CharAt(s, i) \in WordOrWs THEN CharAt(s, i) ELSE ""

humanLineWords == {"human:", "person", "man", "woman", "friend", "chef", "teacher", "worker"}

animalLineWords == {"capybara", "dog", "cat", "animal"}

noHumanPhrases ==
    {"no human characters found", "no human characters", "only animals", "only contains animals"}

maxCharacters == 3

\* line.replace(/[^\w\s]/g, '').trim()
cleaned(line) == trim(MapChars(KeepWordOrWsAt, line))

humanLine(lowerLine) ==
    IncludesAny(lowerLine, humanLineWords) /\ ~IncludesAny(lowerLine, animalLineWords)

\* the line contributes a character
characterLine(line) == humanLine(toLowerCase(line)) /\ Len(cleaned(line)) > 0

cleanedAll(lines) == [k \in DOMAIN lines |-> cleaned(lines[k])]

\* a faulty variant of extractCharacterNames: the list is not cut to 3 names
extractCharacterNamesUncut(characterText) ==
    IF IncludesAny(toLowerCase(characterText), noHumanPhrases) THEN <<>>
    ELSE cleanedAll(Filter(SplitLines(characterText), characterLine))

extractCharacterNames(characterText) ==
    IF IncludesAny(toLowerCase(characterText), noHumanPhrases) THEN <<>>
    ELSE Slice(cleanedAll(Filter(SplitLines(characterText), characterLine)), maxCharacters)

consistencyIndicators ==
    {"then", "next", "after", "later", "continues", "goes",
     "he ", "she ", "they ", "him ", "her ", "them ",
     "same", "character", "person"}

needsCharacterConsistency(prompt) == IncludesAny(toLowerCase(prompt), consistencyIndicators)

humanCharacterWords ==
    <<"person", "man", "woman", "guy", "girl", "chef", "teacher", "friend", "worker",
      "doctor", "student">>

animalWords == {"capybara", "dog", "cat", "bird", "animal", "pet"}

humanWords == {humanCharacterWords[k] : k \in DOMAIN humanCharacterWords}

maxFallbackCharacters == 2

\* the human character words the prompt includes, in the order of the list
wordsIn(lowerPrompt) ==
    LET InPrompt(word) == Includes(lowerPrompt, word)
    IN  Filter(humanCharacterWords, InPrompt)

\* fallbackCharacterAnalysis, given the words found
fallbackCharacters(prompt, lowerPrompt, characters) ==
    IF IncludesAny(lowerPrompt, animalWords) /\ ~IncludesAny(lowerPrompt, humanWords)
    THEN [requiresConsistency |-> FALSE, characters |-> <<>>]
    ELSE [requiresConsistency |->
              /\ Len(characters) > 0
              /\ \/ HasWord(prompt, {"he", "she", "they", "him", "her", "them"})
                 \/ HasWord(prompt, {"then", "next", "after"}),
          characters |-> Slice(characters, maxFallbackCharacters)]

fallbackLower(prompt, lowerPrompt) == fallbackCharacters(prompt, lowerPrompt, wordsIn(lowerPrompt))

fallbackCharacterAnalysis(prompt) == fallbackLower(prompt, toLowerCase(prompt))

(***************************************************************************)
(* scene-analysis.ts: character descriptions                               *)
(***************************************************************************)

\* value || default
OrDefault(value, default) == IF value = "" THEN default ELSE value

characterId(index) == "char_" \o ToString(index + 1)

parseCharacterDescription(character, descriptionText, index) ==
    [characterId |-> characterId(index),
     name |-> character,
     detailedDescription |-> trim(descriptionText),
     age |-> OrDefault(extractDetail(descriptionText, {"age"}), "in their 20s"),
     hair |-> OrDefault(extractDetail(descriptionText, {"hair"}), "shoulder-length brown hair"),
     clothing |-> OrDefault(extractDetail(descriptionText, {"clothing", "wear"}), "casual clothing"),
     facialFeatures |-> OrDefault(extractDetail(descriptionText, {"face", "features", "eyes"}),
                                  "friendly expression"),
     accessories |-> OrDefault(extractDetail(descriptionText, {"accessories", "jewelry"}),
                               "minimal jewelry"),
     uniqueIdentifiers |-> extractUniqueDetails(descriptionText)]

createBasicCharacterDescription(character, index) ==
    [characterId |-> characterId(index),
     name |-> character,
     detailedDescription |-> "A person described as " \o character
                             \o " with distinctive features for video consistency.",
     age |-> "in their 20s or 30s",
     hair |-> "medium-length hair",
     clothing |-> "appropriate attire for the scene",
     facialFeatures |-> "clear, expressive features",
     accessories |-> "minimal accessories",
     uniqueIdentifiers |-> <<"distinctive " \o character \o " appearance">>]

\* characters.map((char, index) => this.createBasicCharacterDescription(char, index))
basicDescriptions(characters) ==
    [k \in DOMAIN characters |-> createBasicCharacterDescription(characters[k], k - 1)]

(***************************************************************************)
(* scene-analysis.ts: scenes                                               *)
(***************************************************************************)

sceneDuration == 8

\* a faulty variant of the scene literals: every scene lists the first
\* character
SceneInfoWithCharacter(sceneNumber, description, visualElements, audioElements) ==
    [sceneNumber |-> sceneNumber, description |-> description, duration |-> sceneDuration,
     characters |-> <<characterId(0)>>, visualElements |-> visualElements,
     audioElements |-> audioElements]

SceneInfo(sceneNumber, description, visualElements, audioElements) ==
    [sceneNumber |-> sceneNumber, description |-> description, duration |-> sceneDuration,
     characters |-> <<>>, visualElements |-> visualElements, audioElements |-> audioElements]

createSingleScene(prompt) == SceneInfo(1, prompt, <<>>, <<>>)

\* text.startsWith('SCENE:')
startsWithScene(text) == SubSeq(text, 1, Min(6, Len(text))) = "SCENE:"

\* line.trim().toUpperCase().startsWith('SCENE:')
sceneLine(line) == startsWithScene(toUpperCase(trim(line)))

\* line.replace(/^SCENE:\s*/i, '').trim()
stripScenePrefix(line) ==
    trim(IF startsWithScene(toUpperCase(SubSeq(line, 1, Min(6, Len(line)))))
         THEN SubSeq(line, RunEnd(line, Whitespace, 7), Len(line))
         ELSE line)

stripAll(lines) == [k \in DOMAIN lines |-> stripScenePrefix(lines[k])]

nonEmpty(line) == Len(line) > 0

\* the SCENE: lines of the text, stripped, the empty ones dropped
sceneLines(sceneText) == Filter(stripAll(Filter(SplitLines(sceneText), sceneLine)), nonEmpty)

sectionLimit == 300

sectionScene(section, i) ==
    SceneInfo(i, Substring(section, 0, sectionLimit),
              extractElements(section, {"visual"}),
              extractElements(section, {"audio", "sound"}))

RECURSIVE sectionScenes(_, _, _)
\* the loop over sections from index i (1-based) on: an empty section is
\* skipped, a kept one is numbered by its own index
sectionScenes(sections, expectedSceneCount, i) ==
    IF i > Min(Len(sections), expectedSceneCount) THEN <<>>
    ELSE (IF trim(sections[i]) # "" THEN <<sectionScene(trim(sections[i]), i)>> ELSE <<>>)
         \o sectionScenes(sections, expectedSceneCount, i + 1)

lineScenes(lines, expectedSceneCount) ==
    [k \in 1..Min(Len(lines), expectedSceneCount) |->
        SceneInfo(k, lines[k],
                  extractElements(lines[k], {"visual", "camera", "light"}),
                  extractElements(lines[k], {"audio", "sound", "music"}))]

\* parseSceneBreakdown up to its while loop, given the SCENE: lines
parsedScenes(lines, sceneText, expectedSceneCount) ==
    IF Len(lines) = 0
    THEN sectionScenes(Tail(SplitSceneNumbers(sceneText)), expectedSceneCount, 1)
    ELSE lineScenes(lines, expectedSceneCount)

RECURSIVE fillScenes(_, _)
\* while (scenes.length < expectedSceneCount) scenes.push(...)
fillScenes(found, expectedSceneCount) ==
    IF Len(found) >= expectedSceneCount THEN found
    ELSE fillScenes(
            Append(found,
                   SceneInfo(Len(found) + 1,
                             "Additional scene " \o ToString(Len(found) + 1) \o " continuation",
                             <<>>, <<>>)),
            expectedSceneCount)

parseSceneBreakdown(sceneText, expectedSceneCount) ==
    fillScenes(parsedScenes(sceneLines(sceneText), sceneText, expectedSceneCount),
               expectedSceneCount)

\* Math.ceil(a / b) for b > 0
CeilDiv(a, b) == (a + b - 1) \div b

basicScenes(prompt, sceneCount, promptLength) ==
    [k \in 1..sceneCount |->
        SceneInfo(k,
                  "Scene " \o ToString(k) \o ": "
                      \o Substring(prompt, (k - 1) * promptLength, k * promptLength),
                  <<>>, <<>>)]

\* a faulty variant of createBasicSceneBreakdown: the length of a chunk is
\* rounded down
createBasicSceneBreakdownFloor(prompt, sceneCount) ==
    basicScenes(prompt, sceneCount, IF sceneCount = 0 THEN 0 ELSE Len(prompt) \div sceneCount)

\* Math.ceil(prompt.length / 0) is Infinity or NaN, and the loop then runs 0 times
createBasicSceneBreakdown(prompt, sceneCount) ==
    basicScenes(prompt, sceneCount,
                IF sceneCount = 0 THEN 0 ELSE CeilDiv(Len(prompt), sceneCount))

characterIds(characters) == [k \in DOMAIN characters |-> characters[k].characterId]

\* a faulty variant of mapCharactersToScenes: the scene of number n gets the
\* first n characters
mapCharactersToScenesByNumber(sceneList, characters) ==
    [n \in {sceneList[k].sceneNumber : k \in DOMAIN sceneList} |->
        SubSeq(characterIds(characters), 1, Min(n, Len(characters)))]

\* scenes.forEach(scene => mappings[scene.sceneNumber] = ...)
mapCharactersToScenes(sceneList, characters) ==
    [n \in {sceneList[k].sceneNumber : k \in DOMAIN sceneList} |-> characterIds(characters)]

(***************************************************************************)
(* client.ts                                                               *)
(***************************************************************************)

\* createOpenAIClient returns a client, or throws (None) without OPENAI_API_KEY
createOpenAIClient(key) == IF key THEN "client" ELSE None

\* getOpenAIClient: the global client, created on first use
getOpenAIClient(client, key) == IF client = None THEN createOpenAIClient(key) ELSE client


(***************************************************************************)
(* lib/utils/validation.ts: sanitizeTextInput, validatePromptText,         *)
(* validateAnalyzeRequest and the error responses                          *)
(***************************************************************************)

\* a value of the request body that is not a string
NotAString == "<not a string>"

\* sanitizeTextInput after "if (typeof input !== 'string') return ''"
sanitizeText(input) ==
    trim(MapChars(CollapseWsAt, MapChars(DropAngleAt, RemoveTags(trim(input)))))

\* a faulty variant of sanitizeTextInput: the tags are removed, the angle
\* brackets that remain are kept
sanitizeTextInputTagsOnly(input) ==
    IF input = NotAString THEN ""
    ELSE trim(MapChars(CollapseWsAt, RemoveTags(trim(input))))

sanitizeTextInput(input) == IF input = NotAString THEN "" ELSE sanitizeText(input)

MAX_PROMPT_LENGTH == 400
MIN_PROMPT_LENGTH == 1

\* RequestValidationResult
ValidationFailure(error, code) ==
    [isValid |-> FALSE, error |-> error, code |-> code, data |-> None]

ValidationSuccess(data) ==
    [isValid |-> TRUE, error |-> None, code |-> None, data |-> data]

\* a faulty variant of validatePromptText: the check of the maximum length
\* is missing
validateSanitizedTextAnyLength(sanitized) ==
    IF trim(sanitized) = ""
    THEN ValidationFailure("Prompt is required and cannot be empty", "MISSING_PROMPT")
    ELSE ValidationSuccess(sanitized)

\* validatePromptText after "const sanitized = sanitizeTextInput(prompt)"
validateSanitizedText(sanitized) ==
    IF trim(sanitized) = ""
    THEN ValidationFailure("Prompt is required and cannot be empty", "MISSING_PROMPT")
    ELSE IF Len(sanitized) < MIN_PROMPT_LENGTH
    THEN ValidationFailure("Prompt must be at least 1 character long", "PROMPT_TOO_SHORT")
    ELSE IF Len(sanitized) > MAX_PROMPT_LENGTH
    THEN ValidationFailure("Prompt must be no more than 400 characters long", "PROMPT_TOO_LONG")
    ELSE IF \E word \in {"test-forbidden-word"} : Includes(toLowerCase(sanitized), word)
    THEN ValidationFailure("Prompt contains inappropriate content", "INVALID_REQUEST_FORMAT")
    ELSE ValidationSuccess(sanitized)

validatePromptText(value) ==
    IF value = NotAString
    THEN ValidationFailure("Prompt must be a string", "INVALID_PROMPT_TYPE")
    ELSE validateSanitizedText(sanitizeTextInput(value))

\* validateJsonRequest: the content type, the JSON of the body, its type
validateJsonRequest(req) ==
    IF ~req.jsonContentType
    THEN ValidationFailure("Request must have Content-Type: application/json",
                           "INVALID_REQUEST_FORMAT")
    ELSE IF req.body.kind = "invalid"
    THEN ValidationFailure("Invalid JSON in request body", "INVALID_REQUEST_FORMAT")
    ELSE IF req.body.kind # "object"
    THEN ValidationFailure("Request body must be a valid JSON object", "INVALID_REQUEST_FORMAT")
    ELSE ValidationSuccess(req.body)

\* validateAnalyzeRequest after "const jsonValidation = await validateJsonRequest(request)";
\* the method of a request that reaches POST is POST
validateAnalyzeBody(jsonValidation) ==
    IF ~jsonValidation.isValid THEN jsonValidation
    ELSE validatePromptText(jsonValidation.data.prompt)

validateAnalyzeRequest(req) == validateAnalyzeBody(validateJsonRequest(req))

\* createApiErrorResponse: the body of the response and its status
createApiErrorResponse(error, status) ==
    [success |-> FALSE, error |-> error, status |-> status]

createValidationErrorResponse(validation) ==
    createApiErrorResponse(validation.error, 400)

createRateLimitErrorResponse(rateLimitInfo) ==
    createApiErrorResponse(
        "Rate limit exceeded. Try again in " \o ToString(rateLimitInfo.windowSeconds)
            \o " seconds.", 429)

(***************************************************************************)
(* lib/utils/validation.ts: SimpleRateLimit                                *)
(***************************************************************************)

\* the limiter of the code is SimpleRateLimit(60000, 60); the model builds
\* it with a window of windowMs milliseconds and maxRequests requests
windowMs == 3000
maxRequests == 2

\* the clock of the model advances by ClockStep milliseconds up to MaxTime
ClockStep == 1000
MaxTime == 6000

Identifiers == {"203.0.113.7", "unknown"}

\* requests.filter(timestamp => timestamp > windowStart)
recentRequests(timestamps, windowStart) ==
    SelectSeq(timestamps, LAMBDA timestamp : timestamp > windowStart)

\* a faulty variant of the test of check: one request too many is allowed
allowedInclusive(recent) == Len(recent) <= maxRequests

\* const allowed = requests.length < this.maxRequests
allowed(recent) == Len(recent) < maxRequests

\* a faulty variant of check: the request is recorded whether it is allowed
\* or not
recordedRequestsAlways(recent, time) == Append(recent, time)

\* check after "requests = requests.filter(...)": the log of the identifier
recordedRequests(recent, time) == IF allowed(recent) THEN Append(recent, time) ELSE recent

\* check: the RateLimitInfo it returns
rateLimitInfo(recent, recorded, time) ==
    [allowed |-> allowed(recent),
     remaining |-> Max(0, maxRequests - Len(recorded)),
     resetTime |-> time + windowMs,
     windowSeconds |-> windowMs \div 1000]

\* check: the entry of the identifier in this.requests when it returns
checkedRequests(log, time) == recordedRequests(recentRequests(log, time - windowMs), time)

\* check: what it returns for the entry log of the identifier
checkResult(recent, time) == rateLimitInfo(recent, recordedRequests(recent, time), time)

\* check(identifier) changes this.requests; allowedAt records what it allowed,
\* checked what it returned, next to what the limiter without cleanup returns
check(identifier) ==
    /\ requests' = [requests EXCEPT ![identifier] = checkedRequests(@, now)]
    /\ tracked' = tracked \cup {identifier}
    /\ uncleaned' = [uncleaned EXCEPT ![identifier] = checkedRequests(@, now)]
    /\ checked' =
         [identifier |-> identifier,
          info |-> checkResult(recentRequests(requests[identifier], now - windowMs), now),
          uncleanedInfo |->
              checkResult(recentRequests(uncleaned[identifier], now - windowMs), now)]
    /\ allowedAt' =
         IF allowed(recentRequests(requests[identifier], now - windowMs))
         THEN [allowedAt EXCEPT ![identifier] = Append(@, now)]
         ELSE allowedAt

(***************************************************************************)
(* The parts of the program at rest                                        *)
(***************************************************************************)

NoRequests == [identifier \in Identifiers |-> <<>>]

AnalysisIdle ==
    /\ userPrompt = None
    /\ apiKey = TRUE
    /\ openaiClient = None
    /\ pc = "idle"
    /\ sanitizedPrompt = None
    /\ complexityAnalysis = Null
    /\ characterAnalysis = Null
    /\ scenes = <<>>
    /\ descriptions = <<>>
    /\ calls = <<>>
    /\ result = Null
    /\ attempts = 0

RouteIdle == request = Null /\ response = Null

LimiterIdle ==
    /\ requests = NoRequests
    /\ now = 0
    /\ allowedAt = NoRequests
    /\ tracked = {}
    /\ checked = Null
    /\ uncleaned = NoRequests

HomeIdle ==
    /\ homePrompt = ""
    /\ isGenerating = FALSE
    /\ lastResult = Null
    /\ fetchState = "idle"
    /\ posts = 0

TextIdle == texts = <<>> /\ textValidation = <<>> /\ slicing = Null

OuterIdle == RouteIdle /\ LimiterIdle /\ HomeIdle /\ TextIdle
(***************************************************************************)
(* Inputs: the prompts of a request and the texts the completion service   *)
(* may answer with                                                         *)
(***************************************************************************)

MaxPhrases == 3

Phrases ==
    <<"first mix eggs", "then he stirs a pot", "next add flour",
      "after that he rests", "later a cake burns", "finally all eat">>

Filler ==
    " in a bright kitchen with big windows, soft light, warm colors, loud music, bubbling pots on a hot stove, shiny pans, fresh herbs, ripe fruit, and a tall cake cooling on a wide wooden table by an open door as rain falls on a quiet street outside and steam rises slowly"

RECURSIVE JoinPhrases(_, _)
\* the phrases whose index is in picked, in order, from index k on
JoinPhrases(picked, k) ==
    IF k > Len(Phrases) THEN ""
    ELSE IF k \in picked THEN ", " \o Phrases[k] \o JoinPhrases(picked, k + 1)
    ELSE JoinPhrases(picked, k + 1)

\* an opening, at most MaxPhrases of the phrases, and a short or a long ending
ComposedPrompts ==
    {"A chef cooks" \o JoinPhrases(picked, 1) \o tail :
        picked \in {q \in SUBSET (1..Len(Phrases)) : Cardinality(q) <= MaxPhrases},
        tail \in {"", Filler}}

CapybaraPrompt == "Capybaras jumping on trampoline, one falls off"

DogPrompt == "A person walking their dog"

ChefSentence ==
    "First, the chef preps ingredients. Then, after that, he accidentally starts a fire, and finally the fire department arrives."

\* the sentence of the scenario in a prompt of 300 characters
ChefPrompt ==
    ChefSentence \o " Smoke fills a bright kitchen as pots clatter on a hot stove, alarms ring, flour flies, sirens wail outside, and a big orange glow lights up all its walls in wild, funny chaos."

TooLongPrompt == ChefPrompt \o Filler

\* "then " and "after", but one strong sequence keyword only
ThenAfterPrompt == "A chef cooks, then he naps soon afterwards" \o Filler

ThenLaterPrompt == "A chef cooks, then he stirs a pot, later a cake burns" \o Filler

RawPrompts ==
    {"", "  \t ", "<b></b>", "  A <b>person</b>\n walking   their dog ",
     "50% off <i>pizza</i>", "a test-forbidden-word", TooLongPrompt}

\* the prompts of the requests to analyzePrompt
Prompts == {CapybaraPrompt, DogPrompt, ChefPrompt, ThenLaterPrompt} \cup RawPrompts

\* the prompts the classifier is exercised on
ClassifierPrompts ==
    ComposedPrompts \cup {CapybaraPrompt, DogPrompt, ChefPrompt, ThenAfterPrompt, TooLongPrompt}

\* the outcome of a completion call that throws
Failure == "<failure>"

AnalysisTexts ==
    {"", "SINGLE SCENE. Simple.", "MULTIPLE SCENES: use 3 scenes",
     "Moderate. 0 scenes beyond this", "Best shown as 1 scene", "Break it into 12 scenes"}

CharacterTexts ==
    {"", "HUMAN: person", "NO HUMAN CHARACTERS FOUND",
     "HUMAN: chef\nHUMAN: friend\nHUMAN: teacher\nHUMAN: worker",
     "The person and the dog"}

\* one SCENE: line of more than 300 characters
LongSceneText == "SCENE: A chef cooks" \o Filler \o "," \o Filler

\* SCENE: lines that are indented, and one whose text begins with SCENE:
IndentedSceneText == "  SCENE: Smoke rises.\n\tscene: Fog falls.\nSCENE: SCENE: rain"

SceneTexts ==
    {"", "SCENE: A chef drops a pan. Camera zooms in. Loud music.\nSCENE: Smoke rises.",
     "Scene 1: eggs crack. Scene 2: flour falls.",
     "Scene 1 Scene 2 something",
     "SCENE: a\nSCENE: b\nSCENE: c\nSCENE: d\nSCENE: e\nSCENE: f",
     LongSceneText, IndentedSceneText}

DescriptionTexts ==
    {"", "A woman of age 30 with red hair. She wears a blue apron. A distinctive scar."}

(***************************************************************************)
(* SceneAnalysisService.analyzePrompt, one action per await point          *)
(***************************************************************************)

\* the result of the catch block of analyzePrompt
ErrorResult ==
    [isMultiScene |-> FALSE, sceneCount |-> 1, scenes |-> <<>>, complexity |-> "simple",
     recommendedApproach |-> "single", requiresCharacterConsistency |-> FALSE,
     characterDescriptions |-> <<>>, sceneCharacterMappings |-> <<>>]

\* the result of the try block of analyzePrompt
AnalysisResult(complexity, characters, sceneList, characterDescriptions) ==
    [isMultiScene |-> complexity.isMultiScene,
     sceneCount |-> complexity.sceneCount,
     scenes |-> sceneList,
     complexity |-> complexity.complexity,
     recommendedApproach |-> IF complexity.isMultiScene THEN "multi-scene" ELSE "single",
     requiresCharacterConsistency |-> characters.requiresConsistency,
     characterDescriptions |-> characterDescriptions,
     sceneCharacterMappings |-> mapCharactersToScenes(sceneList, characterDescriptions)]

\* the record of one completion call
Call(kind, outcome) == [kind |-> kind, ok |-> outcome # Failure, text |-> outcome]

InitWith(prompts) ==
    /\ userPrompt \in prompts
    /\ apiKey \in BOOLEAN
    /\ openaiClient = None
    /\ pc = "validate"
    /\ sanitizedPrompt = None
    /\ complexityAnalysis = Null
    /\ characterAnalysis = Null
    /\ scenes = <<>>
    /\ descriptions = <<>>
    /\ calls = <<>>
    /\ result = Null
    /\ attempts = 0
    /\ OuterIdle

Init == InitWith(Prompts)

\* analyzePrompt after "const validation = validatePrompt(userPrompt)", up to
\* its first await: an invalid prompt or a failing getOpenAIClient throws
analyzeValidated(validation, client) ==
    /\ sanitizedPrompt' = validation.sanitizedPrompt
    /\ openaiClient' = IF validation.isValid THEN client ELSE openaiClient
    /\ pc' = IF validation.isValid /\ client # None THEN "complexity" ELSE "done"
    /\ result' = IF validation.isValid /\ client # None THEN Null ELSE ErrorResult

AnalyzeStart ==
    /\ pc = "validate"
    /\ analyzeValidated(validatePrompt(userPrompt), getOpenAIClient(openaiClient, apiKey))
    /\ UNCHANGED <<userPrompt, apiKey, complexityAnalysis, characterAnalysis,
                   scenes, descriptions, calls, attempts>>
    /\ UNCHANGED outerVars

\* detectComplexity after "const isMultiScene = this.detectMultiSceneIndicators(...)"
complexityResult(prompt, analysisText, isMultiScene) ==
    [isMultiScene |-> isMultiScene,
     sceneCount |-> Min(IF isMultiScene THEN estimateSceneCount(prompt, analysisText) ELSE 1,
                        maxScenes),
     complexity |-> assessComplexity(prompt, analysisText)]

detectComplexity(prompt, outcome) ==
    IF outcome = Failure THEN fallbackComplexityAnalysis(prompt)
    ELSE complexityResult(prompt, outcome, detectMultiSceneIndicators(prompt, outcome))

DetectComplexity ==
    /\ pc = "complexity"
    /\ \E outcome \in AnalysisTexts \cup {Failure} :
        /\ complexityAnalysis' = detectComplexity(sanitizedPrompt, outcome)
        /\ calls' = Append(calls, Call("complexity", outcome))
    /\ pc' = "characters"
    /\ attempts' = 0
    /\ UNCHANGED <<userPrompt, apiKey, openaiClient, sanitizedPrompt, characterAnalysis,
                   scenes, descriptions, result>>
    /\ UNCHANGED outerVars

\* a faulty variant of identifyCharacters: consistency is required whenever
\* the prompt has an indicator, with or without a character
charactersResultByPrompt(prompt, characters) ==
    [requiresConsistency |-> needsCharacterConsistency(prompt), characters |-> characters]

\* identifyCharacters after "const characters = this.extractCharacterNames(...)"
charactersResult(prompt, characters) ==
    [requiresConsistency |-> Len(characters) > 0 /\ needsCharacterConsistency(prompt),
     characters |-> characters]

identifyCharacters(prompt, outcome) ==
    IF outcome = Failure THEN fallbackCharacterAnalysis(prompt)
    ELSE charactersResult(prompt, extractCharacterNames(outcome))

IdentifyCharacters ==
    /\ pc = "characters"
    /\ \E outcome \in CharacterTexts \cup {Failure} :
        /\ characterAnalysis' = identifyCharacters(sanitizedPrompt, outcome)
        /\ calls' = Append(calls, Call("characters", outcome))
    /\ pc' = "scenes"
    /\ attempts' = 0
    /\ UNCHANGED <<userPrompt, apiKey, openaiClient, sanitizedPrompt, complexityAnalysis,
                   scenes, descriptions, result>>
    /\ UNCHANGED outerVars

\* a faulty variant of createSceneBreakdown: the catch block builds the
\* scenes from the text of the error
createSceneBreakdownFromError(prompt, sceneCount, outcome) ==
    parseSceneBreakdown(outcome, sceneCount)

createSceneBreakdown(prompt, sceneCount, outcome) ==
    IF outcome = Failure THEN createBasicSceneBreakdown(prompt, sceneCount)
    ELSE parseSceneBreakdown(outcome, sceneCount)

\* what follows the scenes: the loop of generateCharacterDescriptions, or the
\* return when there is no character to describe
AfterScenes(sceneList) ==
    IF characterAnalysis.requiresConsistency /\ Len(characterAnalysis.characters) > 0
    THEN /\ pc' = "describe"
         /\ result' = result
    ELSE /\ pc' = "done"
         /\ result' = AnalysisResult(complexityAnalysis, characterAnalysis, sceneList, <<>>)

CreateSceneBreakdown ==
    /\ pc = "scenes"
    /\ complexityAnalysis.isMultiScene
    /\ \E outcome \in SceneTexts \cup {Failure} :
        /\ scenes' = createSceneBreakdown(sanitizedPrompt, complexityAnalysis.sceneCount, outcome)
        /\ calls' = Append(calls, Call("breakdown", outcome))
    /\ AfterScenes(scenes')
    /\ attempts' = 0
    /\ UNCHANGED <<userPrompt, apiKey, openaiClient, sanitizedPrompt, complexityAnalysis,
                   characterAnalysis, descriptions>>
    /\ UNCHANGED outerVars

CreateSingleScene ==
    /\ pc = "scenes"
    /\ ~complexityAnalysis.isMultiScene
    /\ scenes' = <<createSingleScene(sanitizedPrompt)>>
    /\ AfterScenes(scenes')
    /\ UNCHANGED <<userPrompt, apiKey, openaiClient, sanitizedPrompt, complexityAnalysis,
                   characterAnalysis, descriptions, calls, attempts>>
    /\ UNCHANGED outerVars

\* a faulty variant of generateCharacterDescriptions: the catch block returns
\* the descriptions collected so far
generateCharacterDescriptionsPartial(characters, found, outcome) ==
    IF outcome = Failure THEN found
    ELSE Append(found, parseCharacterDescription(characters[Len(found) + 1], outcome, Len(found)))

\* a faulty variant of generateCharacterDescriptions: the catch block keeps
\* the descriptions collected so far and adds the basic ones of the rest
generateCharacterDescriptionsMixed(characters, found, outcome) ==
    IF outcome = Failure
    THEN found \o SubSeq(basicDescriptions(characters), Len(found) + 1, Len(characters))
    ELSE Append(found, parseCharacterDescription(characters[Len(found) + 1], outcome, Len(found)))

\* one pass of the loop of generateCharacterDescriptions: the call for
\* characters[i] (0-based) succeeds and its description is pushed, or it
\* throws and the catch block returns the basic descriptions of all characters
generateCharacterDescriptions(characters, found, outcome) ==
    IF outcome = Failure THEN basicDescriptions(characters)
    ELSE Append(found, parseCharacterDescription(characters[Len(found) + 1], outcome, Len(found)))

DescribeCharacter ==
    /\ pc = "describe"
    /\ \E outcome \in DescriptionTexts \cup {Failure} :
        /\ calls' = Append(calls, Call("description", outcome))
        /\ descriptions' =
             generateCharacterDescriptions(characterAnalysis.characters, descriptions, outcome)
        /\ IF outcome = Failure \/ Len(descriptions) + 1 = Len(characterAnalysis.characters)
           THEN /\ pc' = "done"
                /\ result' = AnalysisResult(complexityAnalysis, characterAnalysis,
                                            scenes, descriptions')
           ELSE /\ pc' = "describe"
                /\ result' = result
    /\ attempts' = 0
    /\ UNCHANGED <<userPrompt, apiKey, openaiClient, sanitizedPrompt, complexityAnalysis,
                   characterAnalysis, scenes>>
    /\ UNCHANGED outerVars

\* a completion call is in flight: analyzePrompt awaits the client
CallInFlight ==
    \/ pc \in {"complexity", "characters", "describe"}
    \/ pc = "scenes" /\ complexityAnalysis.isMultiScene

\* client.ts: "maxRetries: 3, // Retry failed requests up to 3 times"
maxRetries == 3

\* the request of the call in flight has failed and the client sends it again
RetryCompletion ==
    /\ CallInFlight
    /\ attempts < maxRetries
    /\ attempts' = attempts + 1
    /\ UNCHANGED <<userPrompt, apiKey, openaiClient, pc, sanitizedPrompt, complexityAnalysis,
                   characterAnalysis, scenes, descriptions, calls, result>>
    /\ UNCHANGED outerVars

Next ==
    \/ AnalyzeStart
    \/ RetryCompletion
    \/ DetectComplexity
    \/ IdentifyCharacters
    \/ CreateSceneBreakdown
    \/ CreateSingleScene
    \/ DescribeCharacter

Spec == Init /\ [][Next]_vars

(***************************************************************************)
(* The classifier alone: analyzePrompt up to the return of                 *)
(* detectComplexity, over the composed prompts                             *)
(***************************************************************************)

InitClassify == InitWith(ClassifierPrompts)

NextClassify == AnalyzeStart \/ RetryCompletion \/ DetectComplexity

SpecClassify == InitClassify /\ [][NextClassify]_vars


(***************************************************************************)
(* The two sanitizers and validatePromptText, applied to every text of a   *)
(* bounded set                                                             *)
(***************************************************************************)

\* the texts are the strings of at most MaxTextLen characters of TextAlphabet
MaxTextLen == 4

TextAlphabet == {"<", ">", " ", "\t", "a", "^"}

RECURSIVE TextsUpTo(_)
Longer(shorter) == shorter \cup {s \o c : s \in shorter, c \in TextAlphabet}

TextsUpTo(n) == IF n = 0 THEN {""} ELSE Longer(TextsUpTo(n - 1))

\* a text of 400 characters after sanitizing, and one of 401
LongestText == "  " \o SubSeq(TooLongPrompt, 1, 400) \o " <b></b>"
LongerText == SubSeq(TooLongPrompt, 1, 401)

TextInputs ==
    TextsUpTo(MaxTextLen)
        \cup {NotAString, LongestText, LongerText, TooLongPrompt,
              "a <b>bold</b>\n\n move", "A Test-Forbidden-Word here"}

\* the sanitizers are applied at most MaxPasses times in a row
MaxPasses == 2

InitText ==
    /\ AnalysisIdle
    /\ RouteIdle /\ LimiterIdle /\ HomeIdle
    /\ \E input \in TextInputs : texts = [text |-> <<input>>, video |-> <<input>>]
    /\ textValidation = <<>>
    /\ slicing = Null

\* sanitizeTextInput is applied to the result of the previous pass
SanitizeTextInput ==
    /\ Len(texts.text) >= 1
    /\ Len(texts.text) <= MaxPasses
    /\ texts' = [texts EXCEPT !.text = Append(@, sanitizeTextInput(@[Len(@)]))]
    /\ UNCHANGED <<textValidation, slicing, analysisVars, routeVars, limiterVars, homeVars>>

\* sanitizePromptForVideo is applied to the result of the previous pass; a
\* value that is not a string gives the empty string
sanitizeVideoInput(input) == IF input = NotAString THEN "" ELSE sanitizePromptForVideo(input)

SanitizePromptForVideo ==
    /\ Len(texts.video) >= 1
    /\ Len(texts.video) <= MaxPasses
    /\ texts' = [texts EXCEPT !.video = Append(@, sanitizeVideoInput(@[Len(@)]))]
    /\ UNCHANGED <<textValidation, slicing, analysisVars, routeVars, limiterVars, homeVars>>

ValidatePromptText ==
    /\ Len(texts.text) >= 1
    /\ textValidation = <<>>
    /\ textValidation' = <<validatePromptText(texts.text[1])>>
    /\ UNCHANGED <<texts, slicing, analysisVars, routeVars, limiterVars, homeVars>>

NextText == SanitizeTextInput \/ SanitizePromptForVideo \/ ValidatePromptText

SpecText == InitText /\ [][NextText]_vars

(***************************************************************************)
(* SimpleRateLimit under the requests of several identifiers               *)
(***************************************************************************)

InitLimiter ==
    /\ AnalysisIdle
    /\ RouteIdle /\ LimiterIdle /\ HomeIdle /\ TextIdle

\* checkRateLimit: a request of some identifier arrives
CheckRateLimit ==
    /\ \E identifier \in Identifiers : check(identifier)
    /\ UNCHANGED <<now, analysisVars, routeVars, homeVars, textVars>>

\* a faulty variant of cleanup: the window starts now
cleanedRequestsNoWindow(log, time) == recentRequests(log, time)

\* cleanup: const validRequests = requests.filter(...)
cleanedRequests(log, time) == recentRequests(log, time - windowMs)

\* setInterval(() => rateLimiter.cleanup(), ...): the entries that are left
\* empty are deleted, and an identifier without an entry has the empty log
Cleanup ==
    /\ requests' =
         [identifier \in Identifiers |->
             IF identifier \in tracked THEN cleanedRequests(requests[identifier], now)
             ELSE requests[identifier]]
    /\ tracked' = {identifier \in tracked : cleanedRequests(requests[identifier], now) # <<>>}
    /\ requests' # requests
    /\ UNCHANGED <<now, allowedAt, checked, uncleaned, analysisVars, routeVars, homeVars,
                   textVars>>

\* time passes
Tick ==
    /\ now + ClockStep <= MaxTime
    /\ now' = now + ClockStep
    /\ UNCHANGED <<requests, allowedAt, tracked, checked, uncleaned, analysisVars, routeVars,
                   homeVars, textVars>>

NextLimiter == CheckRateLimit \/ Cleanup \/ Tick

SpecLimiter == InitLimiter /\ [][NextLimiter]_vars

(***************************************************************************)
(* app/api/openai/analyze/route.ts: POST, around analyzePrompt             *)
(***************************************************************************)

\* the body of a request: JSON that does not parse, JSON that is not an
\* object, or an object with the field prompt
InvalidJson == [kind |-> "invalid", prompt |-> None]
ScalarJson == [kind |-> "scalar", prompt |-> None]
PromptBody(value) == [kind |-> "object", prompt |-> value]

AnalyzeRequest(identifier, jsonContentType, body) ==
    [identifier |-> identifier, jsonContentType |-> jsonContentType, body |-> body]

PercentPrompt == "50% off <i>pizza</i>"

RoutePrompts ==
    {NotAString, "", "  \t ", "<b></b>", TooLongPrompt, "a test-forbidden-word",
     PercentPrompt, "^^^", "  A <b>person</b>\n walking   their dog ", ThenLaterPrompt}

Requests ==
    {AnalyzeRequest(identifier, TRUE, PromptBody(value)) :
        identifier \in Identifiers, value \in RoutePrompts}
        \cup {AnalyzeRequest("unknown", FALSE, PromptBody(DogPrompt)),
              AnalyzeRequest("unknown", TRUE, InvalidJson),
              AnalyzeRequest("unknown", TRUE, ScalarJson)}

\* an identifier that has used up its window
FullRequests == [identifier \in Identifiers |-> [k \in 1..maxRequests |-> 0]]

InitRoute ==
    /\ request \in Requests
    /\ response = Null
    /\ requests \in {NoRequests, [FullRequests EXCEPT !["unknown"] = <<>>]}
    /\ allowedAt = requests
    /\ tracked = {identifier \in Identifiers : requests[identifier] # <<>>}
    /\ checked = Null
    /\ uncleaned = requests
    /\ now = ClockStep
    /\ userPrompt = None
    /\ apiKey \in BOOLEAN
    /\ openaiClient = None
    /\ pc = "route"
    /\ sanitizedPrompt = None
    /\ complexityAnalysis = Null
    /\ characterAnalysis = Null
    /\ scenes = <<>>
    /\ descriptions = <<>>
    /\ calls = <<>>
    /\ result = Null
    /\ attempts = 0
    /\ HomeIdle /\ TextIdle

checkRateLimit(req) ==
    checkResult(recentRequests(requests[req.identifier], now - windowMs), now)

\* POST after checkRateLimit and validateAnalyzeRequest: the two early
\* returns, or the call of analyzePrompt with the validated prompt
postValidated(info, validation) ==
    IF ~info.allowed
    THEN /\ response' = createRateLimitErrorResponse(info)
         /\ pc' = "responded"
         /\ userPrompt' = userPrompt
    ELSE IF ~validation.isValid
    THEN /\ response' = createValidationErrorResponse(validation)
         /\ pc' = "responded"
         /\ userPrompt' = userPrompt
    ELSE /\ response' = response
         /\ pc' = "validate"
         /\ userPrompt' = validation.data

Post ==
    /\ pc = "route"
    /\ check(request.identifier)
    /\ postValidated(checkRateLimit(request), validateAnalyzeRequest(request))
    /\ UNCHANGED <<request, now, apiKey, openaiClient, sanitizedPrompt, complexityAnalysis,
                   characterAnalysis, scenes, descriptions, calls, result, attempts,
                   homeVars, textVars>>

\* analysisResult.scenes.map(scene => ({...}))
sceneBreakdown(sceneList) ==
    [k \in DOMAIN sceneList |->
        [sceneNumber |-> sceneList[k].sceneNumber,
         description |-> sceneList[k].description,
         duration |-> sceneList[k].duration,
         characters |-> sceneList[k].characters]]

\* const responseData: AnalyzeResponse = { success: true, data: {...} }
AnalyzeResponse(analysisResult) ==
    [success |-> TRUE,
     status |-> 200,
     data |-> [sceneCount |-> analysisResult.sceneCount,
               sceneBreakdown |-> sceneBreakdown(analysisResult.scenes),
               complexity |-> analysisResult.complexity,
               recommendedApproach |-> analysisResult.recommendedApproach]]

\* POST after "await sceneAnalysisService.analyzePrompt(prompt)", which never
\* rejects
PostRespond ==
    /\ pc = "done"
    /\ response' = AnalyzeResponse(result)
    /\ pc' = "responded"
    /\ UNCHANGED <<request, limiterVars, userPrompt, apiKey, openaiClient, sanitizedPrompt,
                   complexityAnalysis, characterAnalysis, scenes, descriptions, calls,
                   result, attempts, homeVars, textVars>>

NextRoute ==
    \/ Post
    \/ AnalyzeStart
    \/ RetryCompletion
    \/ DetectComplexity
    \/ IdentifyCharacters
    \/ CreateSceneBreakdown
    \/ CreateSingleScene
    \/ DescribeCharacter
    \/ PostRespond

SpecRoute == InitRoute /\ [][NextRoute]_vars

(***************************************************************************)
(* Home.handleGenerate: the page posts the prompt to the route and shows   *)
(* what comes back.  The route is an oracle here: the fetch rejects, or    *)
(* resolves with one response of a bounded set.                            *)
(***************************************************************************)

HomePrompts ==
    {"", "  \t ", " A person walking their dog ", "a test-forbidden-word", PercentPrompt,
     ThenLaterPrompt}

\* a scene of a response, with the ids of its characters
ResponseScene(sceneNumber, characters) ==
    [SceneInfo(sceneNumber, "A chef cooks", <<>>, <<>>) EXCEPT !.characters = characters]

\* a result of analyzePrompt with the given scenes
ResultWith(sceneCount, sceneList) ==
    [ErrorResult EXCEPT !.sceneCount = sceneCount, !.scenes = sceneList]

\* the responses of POST: the two early returns, the response to a result
\* of analyzePrompt, and the responses of the catch block
Responses ==
    {createRateLimitErrorResponse(checkResult(FullRequests["unknown"], 0)),
     createValidationErrorResponse(validatePromptText("a test-forbidden-word")),
     createValidationErrorResponse(validatePromptText(NotAString)),
     AnalyzeResponse(ErrorResult),
     AnalyzeResponse(ResultWith(0, <<>>)),
     AnalyzeResponse(ResultWith(2, <<ResponseScene(1, <<>>), ResponseScene(2, <<"char_1">>)>>)),
     createApiErrorResponse("Internal server error", 500),
     createApiErrorResponse("", 500)}

\* the page is used for at most MaxPosts submissions
MaxPosts == 2

InitHome ==
    /\ homePrompt \in HomePrompts
    /\ isGenerating = FALSE
    /\ lastResult = Null
    /\ fetchState = "idle"
    /\ posts = 0
    /\ AnalysisIdle
    /\ RouteIdle /\ LimiterIdle /\ TextIdle

\* handleGenerate up to "await fetch(...)": a blank prompt returns at once;
\* the prompt box and the button are disabled while isGenerating
HandleGenerate ==
    /\ ~isGenerating
    /\ posts < MaxPosts
    /\ trim(homePrompt) # ""
    /\ isGenerating' = TRUE
    /\ lastResult' = Null
    /\ request' = AnalyzeRequest("unknown", TRUE, PromptBody(trim(homePrompt)))
    /\ posts' = posts + 1
    /\ fetchState' = "pending"
    /\ UNCHANGED <<homePrompt, response, limiterVars, analysisVars, textVars>>

\* sceneBreakdown.some(scene => scene.characters.length > 0)
hasCharacters(breakdown) == \E k \in DOMAIN breakdown : Len(breakdown[k].characters) > 0

\* handleGenerate after "const data = await response.json()"; the data of a
\* response with success true is an object
shownResult(data) ==
    IF data.success
    THEN [success |-> TRUE,
          sceneCount |-> IF data.data.sceneCount = 0 THEN 1 ELSE data.data.sceneCount,
          hasCharacters |-> hasCharacters(data.data.sceneBreakdown)]
    ELSE [success |-> FALSE,
          error |-> IF data.error = "" THEN "Failed to analyze scene" ELSE data.error]

\* the catch block of handleGenerate
networkError == [success |-> FALSE, error |-> "Network error - check console for details"]

\* a faulty variant of the end of handleGenerate: setIsGenerating(false) is
\* the last statement of the try block
generatingAfterTry(thrown) == thrown

\* the finally block of handleGenerate: setIsGenerating(false)
generatingAfter(thrown) == FALSE

\* the fetch resolves with a response of the route
FetchResolves ==
    /\ fetchState = "pending"
    /\ \E data \in Responses :
        /\ response' = data
        /\ lastResult' = shownResult(data)
    /\ isGenerating' = generatingAfter(FALSE)
    /\ fetchState' = "resolved"
    /\ UNCHANGED <<homePrompt, posts, request, limiterVars, analysisVars, textVars>>

\* the fetch rejects, or the body of the response is not JSON
FetchThrows ==
    /\ fetchState = "pending"
    /\ lastResult' = networkError
    /\ isGenerating' = generatingAfter(TRUE)
    /\ fetchState' = "thrown"
    /\ UNCHANGED <<homePrompt, posts, routeVars, limiterVars, analysisVars, textVars>>

\* the user edits the prompt box: handlePromptChange keeps a text of at most
\* 400 characters
HandlePromptChange ==
    /\ ~isGenerating
    /\ \E value \in HomePrompts :
        /\ Len(value) <= 400
        /\ homePrompt' = value
    /\ UNCHANGED <<isGenerating, lastResult, fetchState, posts, routeVars, limiterVars,
                   analysisVars, textVars>>

NextHome ==
    \/ HandlePromptChange
    \/ HandleGenerate
    \/ FetchResolves
    \/ FetchThrows

\* a fetch settles: it resolves with the response of the route, or rejects
SpecHome ==
    /\ InitHome
    /\ [][NextHome]_vars
    /\ WF_homeVars(FetchResolves \/ FetchThrows)

(***************************************************************************)
(* createBasicSceneBreakdown, applied to every prompt of a bounded set and *)
(* every scene count                                                       *)
(***************************************************************************)

\* the prompts are the strings of at most MaxSliceLen characters of
\* SliceAlphabet, and two prompts of a request
MaxSliceLen == 6

SliceAlphabet == {"a", "b"}

RECURSIVE SlicesUpTo(_)
SlicesUpTo(n) ==
    IF n = 0 THEN {""}
    ELSE SlicesUpTo(n - 1) \cup {s \o c : s \in SlicesUpTo(n - 1), c \in SliceAlphabet}

SlicePrompts == SlicesUpTo(MaxSliceLen) \cup {ChefPrompt, ThenLaterPrompt}

InitSlice ==
    /\ AnalysisIdle
    /\ RouteIdle /\ LimiterIdle /\ HomeIdle
    /\ texts = <<>>
    /\ textValidation = <<>>
    /\ \E prompt \in SlicePrompts, sceneCount \in 1..maxScenes :
        slicing = [prompt |-> prompt, sceneCount |-> sceneCount, scenes |-> <<>>,
                   returned |-> FALSE]

CreateBasicSceneBreakdown ==
    /\ ~slicing.returned
    /\ slicing' = [slicing EXCEPT
                      !.scenes = createBasicSceneBreakdown(slicing.prompt, slicing.sceneCount),
                      !.returned = TRUE]
    /\ UNCHANGED <<texts, textValidation, analysisVars, routeVars, limiterVars, homeVars>>

NextSlice == CreateBasicSceneBreakdown

SpecSlice == InitSlice /\ [][NextSlice]_vars

(***************************************************************************)
(* analyzePrompt under fair scheduling: the event loop runs the code that  *)
(* is ready, and every completion call returns or fails                    *)
(***************************************************************************)

\* the prompts of the requests: one that is rejected, one of a single scene,
\* one of several scenes with a character to keep consistent
CallPrompts == {"a test-forbidden-word", DogPrompt, ThenLaterPrompt}

\* validatePrompt on the prompts of the requests, computed once
validatePromptTable == [prompt \in CallPrompts |-> validatePrompt(prompt)]

ValidCallPrompts ==
    {validatePromptTable[prompt].sanitizedPrompt :
        prompt \in {p \in CallPrompts : validatePromptTable[p].isValid}}

\* detectComplexity on the sanitized prompts and every outcome of its call,
\* computed once
detectComplexityTable ==
    [prompt \in ValidCallPrompts, outcome \in AnalysisTexts \cup {Failure} |->
        detectComplexity(prompt, outcome)]

InitCalls == InitWith(CallPrompts)

\* AnalyzeStart, with the value of validatePrompt looked up
AnalyzeStartTabled ==
    /\ pc = "validate"
    /\ analyzeValidated(validatePromptTable[userPrompt], getOpenAIClient(openaiClient, apiKey))
    /\ UNCHANGED <<userPrompt, apiKey, complexityAnalysis, characterAnalysis,
                   scenes, descriptions, calls, attempts>>
    /\ UNCHANGED outerVars

\* DetectComplexity, with the value of detectComplexity looked up
DetectComplexityTabled ==
    /\ pc = "complexity"
    /\ \E outcome \in AnalysisTexts \cup {Failure} :
        /\ complexityAnalysis' = detectComplexityTable[sanitizedPrompt, outcome]
        /\ calls' = Append(calls, Call("complexity", outcome))
    /\ pc' = "characters"
    /\ attempts' = 0
    /\ UNCHANGED <<userPrompt, apiKey, openaiClient, sanitizedPrompt, characterAnalysis,
                   scenes, descriptions, result>>
    /\ UNCHANGED outerVars

\* the code of analyzePrompt runs up to its next await, or the call it
\* awaits settles
Advance ==
    \/ AnalyzeStartTabled
    \/ DetectComplexityTabled
    \/ IdentifyCharacters
    \/ CreateSceneBreakdown
    \/ CreateSingleScene
    \/ DescribeCharacter

NextCalls == Advance \/ RetryCompletion

\* the client may re-send a failed request (at most maxRetries times), but
\* the call it belongs to settles in the end
SpecCalls == InitCalls /\ [][NextCalls]_vars /\ WF_analysisVars(Advance)
(***************************************************************************)
(* Properties                                                              *)
(***************************************************************************)

\* the most recent completion call
LastCall == calls[Len(calls)]

\* detectComplexity has just returned
Classified == pc = "characters"

\* detectComplexity has just returned from its try block / from its catch block
ClassifiedPrimary == Classified /\ LastCall.ok
ClassifiedFallback == Classified /\ ~LastCall.ok

StrongKeywords == {strongSequenceKeywords[k] : k \in DOMAIN strongSequenceKeywords}

\* the three conditions of the multi-scene gate, on a prompt and its lower case
ThreeConditionsIn(prompt, low) ==
    /\ Cardinality({kw \in StrongKeywords : Includes(low, kw)}) >= 2
    /\ Len(prompt) > 250
    /\ Includes(low, "then ")
    /\ Includes(low, "after") \/ Includes(low, "later") \/ Includes(low, "finally")

ThreeConditions(prompt) == ThreeConditionsIn(prompt, toLowerCase(prompt))

\* the three conditions of the fallback heuristic
FallbackConditions(prompt) ==
    /\ strongSequenceWords(prompt)
    /\ Len(prompt) > 250
    /\ stepSplits(prompt) > 3

\* C1: every result of analyzePrompt, the one of its catch block included,
\* has sceneCount = length(scenes)
C1_SceneCountIsLength == pc = "done" => result.sceneCount = Len(result.scenes)

\* C2: every output of the complexity classifier, from a response text or
\* from the fallback, has 1 <= sceneCount <= 5, and sceneCount = 1 when
\* isMultiScene is false
C2_SceneCountRange ==
    Classified =>
        /\ complexityAnalysis.sceneCount >= 1
        /\ complexityAnalysis.sceneCount <= 5
        /\ ~complexityAnalysis.isMultiScene => complexityAnalysis.sceneCount = 1

C4_FallbackEqualsPrimary ==
    ClassifiedFallback => (complexityAnalysis.isMultiScene <=> ThreeConditions(sanitizedPrompt))

\* C4 amended: the fallback heuristic is a gate of its own (the sequence
\* pattern matches, more than 250 characters, more than 3 segments), and it
\* agrees with the primary gate on prompts of at most 250 characters
C4_FallbackOwnGate ==
    ClassifiedFallback =>
        /\ complexityAnalysis.isMultiScene <=> FallbackConditions(sanitizedPrompt)
        /\ Len(sanitizedPrompt) <= 250 =>
              (complexityAnalysis.isMultiScene <=> ThreeConditions(sanitizedPrompt))

\* C4 amended happens: the fallback accepts a prompt that the primary gate rejects
C4_Witness ==
    /\ ClassifiedFallback
    /\ complexityAnalysis.isMultiScene
    /\ ~ThreeConditions(sanitizedPrompt)

\* C5: a prompt of 300 characters that contains the sentence about the chef
\* is classified as multi-scene with 2 to 5 scenes, on both paths
C5_ChefPromptIsMultiScene ==
    (Classified /\ Len(sanitizedPrompt) = 300 /\ Includes(sanitizedPrompt, ChefSentence)) =>
        /\ complexityAnalysis.isMultiScene
        /\ complexityAnalysis.sceneCount >= 2
        /\ complexityAnalysis.sceneCount <= 5

BrokenDown == \E k \in DOMAIN calls : calls[k].kind = "breakdown"

\* C7: the scene breakdown for sceneCount N has exactly N scenes, numbered
\* 1..N in order
C7_SceneNumbers ==
    BrokenDown =>
        /\ Len(scenes) = complexityAnalysis.sceneCount
        /\ \A i \in DOMAIN scenes : scenes[i].sceneNumber = i

\* generateCharacterDescriptions has returned
Described ==
    /\ pc = "done"
    /\ \E k \in DOMAIN calls : calls[k].kind = "description"

\* the ids of C8, in order
CharIds == <<"char_1", "char_2", "char_3">>

\* C8: generateCharacterDescriptions returns one description per character
\* name, in order, named by its label, with the ids char_1..char_k, whether
\* the calls succeed or one of them fails
C8_OneDescriptionPerName ==
    Described =>
        /\ Len(result.characterDescriptions) = Len(characterAnalysis.characters)
        /\ \A k \in DOMAIN result.characterDescriptions :
              /\ result.characterDescriptions[k].name = characterAnalysis.characters[k]
              /\ result.characterDescriptions[k].characterId = CharIds[k]

\* C8 happens: three characters, and a description call fails after one that
\* succeeded
C8_Witness ==
    /\ Described
    /\ Len(result.characterDescriptions) = 3
    /\ \E i, j \in DOMAIN calls :
          /\ i < j
          /\ calls[i].kind = "description" /\ calls[i].ok
          /\ calls[j].kind = "description" /\ ~calls[j].ok

\* C9: for "A person walking their dog" the character identifier returns
\* the one character "person" and no need of consistency, from the response
\* "HUMAN: person" and from the fallback
C9_PersonWalkingDog ==
    (pc = "scenes" /\ sanitizedPrompt = DogPrompt /\ LastCall.text \in {"HUMAN: person", Failure}) =>
        /\ characterAnalysis.characters = <<"person">>
        /\ ~characterAnalysis.requiresConsistency

\* no two descriptions share an id
UniqueIds(characterDescriptions) ==
    \A i, j \in DOMAIN characterDescriptions :
        characterDescriptions[i].characterId = characterDescriptions[j].characterId => i = j

\* every id of the mappings is the id of a description
MappedIdsExist(mappings, characterDescriptions) ==
    \A n \in DOMAIN mappings : \A i \in DOMAIN mappings[n] :
        \E k \in DOMAIN characterDescriptions :
            characterDescriptions[k].characterId = mappings[n][i]

\* C10: when no completion call of a request succeeds, analyzePrompt on a
\* valid prompt returns a result with at least one scene, as many scenes as
\* sceneCount, unique character ids and mappings to existing descriptions
C10_FallbackResult ==
    (pc = "done" /\ sanitizedPrompt # None /\ \A k \in DOMAIN calls : ~calls[k].ok) =>
        /\ Len(result.scenes) >= 1
        /\ Len(result.scenes) = result.sceneCount
        /\ UniqueIds(result.characterDescriptions)
        /\ MappedIdsExist(result.sceneCharacterMappings, result.characterDescriptions)


(***************************************************************************)
(* Properties of the route, the validators and the rate limiter            *)
(***************************************************************************)

\* POST has answered a request that was not rate limited and whose body is
\* an object with a prompt
PromptAnswered ==
    /\ pc = "responded"
    /\ response.status # 429
    /\ request.jsonContentType
    /\ request.body.kind = "object"

\* the reason of the validator that rejects the prompt of the pipeline: the
\* validator of the route, then the validator of the service; None when
\* both accept it
rejectionOf(routeValidation, serviceValidation) ==
    IF ~routeValidation.isValid THEN routeValidation.error
    ELSE IF ~serviceValidation.isValid THEN serviceValidation.error
    ELSE None

serviceRejection(routeValidation) ==
    rejectionOf(routeValidation,
                IF routeValidation.isValid THEN validatePrompt(routeValidation.data)
                ELSE routeValidation)

rejection(value) == serviceRejection(validatePromptText(value))

\* the response to a prompt that a validator rejected with the given reason
rejectedWith(reason) ==
    reason # None =>
        /\ ~response.success
        /\ response.error = reason
        /\ calls = <<>>

\* C11: a prompt that fails the validation of the route or the validation of
\* the service never gets a response with success true: the response is an
\* error that carries the reason of the validator, and no completion call is
\* made for it
C11_InvalidPromptRejected == PromptAnswered => rejectedWith(rejection(request.body.prompt))

\* validatePromptText has been applied to a string
Validated == Len(textValidation) = 1 /\ texts.text[1] # NotAString

\* what C12 says of the result of validatePromptText on a string with the
\* given sanitized form
validationAgrees(validation, sanitized) ==
    /\ Len(sanitized) > 400 =>
          ~validation.isValid /\ validation.code = "PROMPT_TOO_LONG"
    /\ Len(sanitized) = 0 =>
          ~validation.isValid /\ validation.code = "MISSING_PROMPT"
    /\ validation.isValid =>
          /\ validation.data = sanitized
          /\ Len(validation.data) >= 1
          /\ Len(validation.data) <= 400

\* C12: validatePromptText fails with PROMPT_TOO_LONG for every string whose
\* sanitized length exceeds 400 and with MISSING_PROMPT for every string
\* whose sanitized length is 0; when it succeeds it returns the sanitized
\* string, of 1 to 400 characters
C12_PromptTextLength ==
    Validated => validationAgrees(textValidation[1], sanitizeTextInput(texts.text[1]))

\* C12 happens: a string of more than 400 characters whose sanitized form
\* has exactly 400 is accepted
C12_Witness ==
    /\ Validated
    /\ Len(texts.text[1]) > 400
    /\ textValidation[1].isValid
    /\ Len(textValidation[1].data) = 400

\* a sanitized text: no angle bracket, no two whitespace characters in a
\* row, no whitespace at either end
clean(s) ==
    /\ \A i \in 1..Len(s) : CharAt(s, i) \notin {"<", ">"}
    /\ \A i \in 1..(Len(s) - 1) : ~(IsWs(s, i) /\ IsWs(s, i + 1))
    /\ Len(s) > 0 => ~IsWs(s, 1) /\ ~IsWs(s, Len(s))

\* the results of a sanitizer applied again and again: the first is clean,
\* and the second pass returns the result of the first
idempotent(chain) ==
    /\ Len(chain) >= 2 => clean(chain[2])
    /\ Len(chain) >= 3 => chain[3] = chain[2]

\* C13: sanitizeTextInput and sanitizePromptForVideo are idempotent, and
\* their output has no "<" or ">", no run of two whitespace characters and
\* no leading or trailing whitespace
C13_SanitizeIdempotent == idempotent(texts.text) /\ idempotent(texts.video)

\* C13 happens: both sanitizers were applied twice to a text with a "<"
\* that each of them changed, and they differ on it
C13_Witness ==
    /\ Len(texts.text) = 3
    /\ Len(texts.video) = 3
    /\ Includes(texts.text[1], "<")
    /\ texts.text[2] # texts.text[1]
    /\ texts.video[2] # texts.text[2]
    /\ texts.text[2] # ""

\* the requests of a log that check allowed in the window (t - windowMs, t]
allowedIn(log, t) == Cardinality({k \in DOMAIN log : log[k] > t - windowMs /\ log[k] <= t})

\* C14: for every identifier, the requests that check allowed in any window
\* (t - windowMs, t] are at most maxRequests, whatever the order of the
\* arrivals; a window that holds allowed requests is within the window that
\* ends at the last of them, so the windows that end at an allowed request
\* are the ones that count
C14_WindowNeverExceeded ==
    \A identifier \in Identifiers : \A k \in DOMAIN allowedAt[identifier] :
        allowedIn(allowedAt[identifier], allowedAt[identifier][k]) <= maxRequests

\* C14 happens: an identifier was allowed more than maxRequests requests in
\* all, and its window is full now
C14_Witness ==
    \E identifier \in Identifiers :
        /\ Len(allowedAt[identifier]) > maxRequests
        /\ Len(requests[identifier]) = maxRequests
        /\ ~allowed(recentRequests(requests[identifier], now - windowMs))

\* once a call of a component has failed, the component makes no other call
NoCallAfterFailure ==
    \A i, j \in DOMAIN calls :
        (i < j /\ ~calls[i].ok) => calls[j].kind # calls[i].kind

\* C15: no retries: a component whose completion call failed issues no
\* further call (the description loop makes no call for the remaining
\* characters), and the request of a call that failed is not sent again
C15_NoRetries == NoCallAfterFailure /\ attempts = 0

\* the scene numbers of a list of scenes
sceneNumbers(sceneList) == {sceneList[k].sceneNumber : k \in DOMAIN sceneList}

\* the ids of a list of character descriptions, in order
idsOf(characterDescriptions) ==
    [k \in DOMAIN characterDescriptions |-> characterDescriptions[k].characterId]

\* C16: in every result of analyzePrompt the keys of sceneCharacterMappings
\* are the scene numbers of scenes, every key maps to the ids of all
\* characterDescriptions, and every id of a mapping is the id of a description
C16_EveryCharacterInEveryScene ==
    pc = "done" =>
        /\ DOMAIN result.sceneCharacterMappings = sceneNumbers(result.scenes)
        /\ \A n \in DOMAIN result.sceneCharacterMappings :
              result.sceneCharacterMappings[n] = idsOf(result.characterDescriptions)
        /\ MappedIdsExist(result.sceneCharacterMappings, result.characterDescriptions)

\* C16 happens: a result with several scenes and several descriptions
C16_Witness ==
    /\ pc = "done"
    /\ Len(result.scenes) >= 2
    /\ Len(result.characterDescriptions) >= 2
    /\ \E k \in DOMAIN calls : calls[k].kind = "description" /\ calls[k].ok

\* analyzePrompt has returned and every completion call it made has failed
AllFailed ==
    /\ pc = "done"
    /\ Len(calls) >= 1
    /\ \A k \in DOMAIN calls : ~calls[k].ok

\* the scenes and the descriptions the fallback paths give for a prompt
fallbackSceneList(text, complexity) ==
    IF complexity.isMultiScene
    THEN createBasicSceneBreakdown(text, complexity.sceneCount)
    ELSE <<createSingleScene(text)>>

fallbackDescriptions(characters) ==
    IF characters.requiresConsistency /\ Len(characters.characters) > 0
    THEN basicDescriptions(characters.characters)
    ELSE <<>>

fallbackAnalysisOf(text, complexity, characters) ==
    AnalysisResult(complexity, characters, fallbackSceneList(text, complexity),
                   fallbackDescriptions(characters))

\* the result of analyzePrompt as a function of the sanitized prompt alone
fallbackAnalysis(text) ==
    fallbackAnalysisOf(text, fallbackComplexityAnalysis(text), fallbackCharacterAnalysis(text))

\* C17: when every completion call fails, the result of analyzePrompt is a
\* function of the prompt alone, so that two runs on the same prompt return
\* identical results
C17_FallbackDeterministic ==
    AllFailed => result = fallbackAnalysis(sanitizePromptForVideo(userPrompt))

\* C17 happens: the four components have all fallen back, with several
\* scenes and a described character
C17_Witness ==
    /\ AllFailed
    /\ Len(calls) = 4
    /\ Len(result.scenes) >= 2
    /\ Len(result.characterDescriptions) >= 1

\* a step sends a POST exactly when it starts a generation, and then one
OnePost ==
    posts' = posts + (IF ~isGenerating /\ isGenerating' THEN 1 ELSE 0)

\* when the response has success false, lastResult holds its error message
\* (a default message when the response has none)
ErrorShown ==
    (fetchState = "resolved" /\ ~response.success) =>
        /\ ~lastResult.success
        /\ lastResult.error # ""
        /\ response.error # "" => lastResult.error = response.error

\* C18: an invocation of handleGenerate with a non-blank prompt sends exactly
\* one POST; whether the response has success true, has success false or the
\* fetch throws, isGenerating eventually returns to false, and lastResult
\* holds the error message of a response with success false
C18_GenerateSettles ==
    /\ [][OnePost]_vars
    /\ []ErrorShown
    /\ [](fetchState \in {"resolved", "thrown"} => ~isGenerating)
    /\ isGenerating ~> ~isGenerating

\* C18 happens: the route rejected the prompt of the second submission, and
\* the page shows its reason
C18_Witness ==
    /\ fetchState = "resolved"
    /\ posts = 2
    /\ ~isGenerating
    /\ ~response.success
    /\ lastResult.error = "Prompt contains inappropriate content"

\* C19: whenever the classifier returns isMultiScene = true, its sceneCount
\* is at least 2 and at most 5, from a response text and from the fallback
C19_MultiSceneCount ==
    (Classified /\ complexityAnalysis.isMultiScene) =>
        /\ complexityAnalysis.sceneCount >= 2
        /\ complexityAnalysis.sceneCount <= 5

\* the label the scene decision determines
labelOf(complexity) ==
    IF ~complexity.isMultiScene THEN "simple"
    ELSE IF complexity.sceneCount > 2 THEN "complex"
    ELSE "moderate"

\* C20: the complexity label of the classifier is "complex" when isMultiScene
\* and sceneCount > 2, "moderate" when isMultiScene and sceneCount <= 2, and
\* "simple" when isMultiScene is false, from a response text and from the
\* fallback
C20_LabelFollowsScenes ==
    Classified => complexityAnalysis.complexity = labelOf(complexityAnalysis)

\* on the fallback path the label is the one the scene decision determines
FallbackLabelFollowsScenes ==
    ClassifiedFallback => complexityAnalysis.complexity = labelOf(complexityAnalysis)

\* on the fallback path a multi-scene prompt has 2 to 5 scenes
FallbackMultiSceneCount ==
    (ClassifiedFallback /\ complexityAnalysis.isMultiScene) =>
        /\ complexityAnalysis.sceneCount >= 2
        /\ complexityAnalysis.sceneCount <= 5

(***************************************************************************)
(* Properties of the scene breakdown, the call sequence, the results and   *)
(* the rate limiter                                                        *)
(***************************************************************************)

\* the text the breakdown call answered with
breakdownText == calls[CHOOSE k \in DOMAIN calls : calls[k].kind = "breakdown"].text

\* createSceneBreakdown has returned the scenes of parseSceneBreakdown, built
\* from the SCENE: lines of the response
ParsedFromLines ==
    /\ BrokenDown
    /\ breakdownText # Failure
    /\ sceneLines(breakdownText) # <<>>

\* the scenes that come from a SCENE: line of the response (the others are
\* the placeholders of the while loop)
lineSceneNumbers == 1..Min(Len(sceneLines(breakdownText)), Len(scenes))

\* C21: every scene that parseSceneBreakdown builds from a SCENE: line has a
\* description of at most 300 characters, at most 3 visualElements and at
\* most 3 audioElements
C21_SceneLineLimits ==
    ParsedFromLines =>
        \A k \in lineSceneNumbers :
            /\ Len(scenes[k].description) <= sectionLimit
            /\ Len(scenes[k].visualElements) <= maxElements
            /\ Len(scenes[k].audioElements) <= maxElements

\* the part of C21 that the code keeps: the element lists of every scene hold
\* at most 3 sentences
ElementLimits ==
    BrokenDown =>
        \A k \in DOMAIN scenes :
            /\ Len(scenes[k].visualElements) <= maxElements
            /\ Len(scenes[k].audioElements) <= maxElements

\* C22: on the SCENE: path no scene description begins with "SCENE:", for
\* lines with leading whitespace too, and the scene<number> split is used
\* only when the response has no SCENE: line
C22_PrefixStripped ==
    /\ ParsedFromLines =>
          \A k \in lineSceneNumbers : ~sceneLine(scenes[k].description)
    /\ (BrokenDown /\ breakdownText # Failure
            /\ Filter(SplitLines(breakdownText), sceneLine) # <<>>)
          => sceneLines(breakdownText) # <<>>

\* a SCENE: line that is not indented and whose text does not begin with
\* SCENE: loses its prefix
PlainPrefixStripped ==
    (ParsedFromLines /\ breakdownText # IndentedSceneText) =>
        \A k \in lineSceneNumbers : ~sceneLine(scenes[k].description)

\* the chunk of the prompt in the description "Scene k: chunk" of scene k
chunk(scene) ==
    SubSeq(scene.description, Len("Scene " \o ToString(scene.sceneNumber) \o ": ") + 1,
           Len(scene.description))

RECURSIVE joined(_, _)
\* the chunks of the scenes from scene k on, one after the other
joined(sceneList, k) ==
    IF k > Len(sceneList) THEN "" ELSE chunk(sceneList[k]) \o joined(sceneList, k + 1)

\* what createBasicSceneBreakdown gives for every prompt: one scene per
\* number, in order, of 8 seconds, with empty lists
basicSceneList(sceneList, sceneCount) ==
    /\ Len(sceneList) = sceneCount
    /\ \A k \in DOMAIN sceneList :
        /\ sceneList[k].sceneNumber = k
        /\ SubSeq(sceneList[k].description, 1, Len(sceneList[k].description) - Len(chunk(sceneList[k])))
             = "Scene " \o ToString(k) \o ": "
        /\ sceneList[k].duration = 8
        /\ sceneList[k].characters = <<>>
        /\ sceneList[k].visualElements = <<>>
        /\ sceneList[k].audioElements = <<>>

\* C23 as stated: the chunks of the scenes of createBasicSceneBreakdown, in
\* order, make up the prompt and all have the same length, and every scene
\* has duration 8 and empty lists, for every prompt and sceneCount in 1..5
C23_EqualChunks ==
    slicing.returned =>
        /\ basicSceneList(slicing.scenes, slicing.sceneCount)
        /\ joined(slicing.scenes, 1) = slicing.prompt
        /\ \A j, k \in DOMAIN slicing.scenes :
            Len(chunk(slicing.scenes[j])) = Len(chunk(slicing.scenes[k]))

\* C23, amended: the chunks, in order, make up the prompt; none is longer
\* than the prompt's length divided by sceneCount, rounded up, and a chunk
\* is shorter than that only when every later chunk is empty
C23_CeilingChunks ==
    slicing.returned =>
        /\ basicSceneList(slicing.scenes, slicing.sceneCount)
        /\ joined(slicing.scenes, 1) = slicing.prompt
        /\ \A k \in DOMAIN slicing.scenes :
            /\ Len(chunk(slicing.scenes[k])) * slicing.sceneCount
                 < Len(slicing.prompt) + slicing.sceneCount
            /\ (Len(chunk(slicing.scenes[k])) + 1) * slicing.sceneCount
                    < Len(slicing.prompt) + slicing.sceneCount
                 => \A j \in (k + 1)..Len(slicing.scenes) : chunk(slicing.scenes[j]) = ""

\* C23 happens: 5 characters are sliced into 4 scenes, of 2, 2, 1 and 0
\* characters
C23_Witness ==
    /\ slicing.returned
    /\ Len(slicing.prompt) = 5
    /\ slicing.sceneCount = 4
    /\ Len(chunk(slicing.scenes[2])) = 2
    /\ Len(chunk(slicing.scenes[3])) = 1
    /\ chunk(slicing.scenes[4]) = ""

\* the kinds of the calls issued so far, in order
kinds == [k \in DOMAIN calls |-> calls[k].kind]

countOf(kind) == Cardinality({k \in DOMAIN calls : calls[k].kind = kind})

\* one complexity call, one character call, one breakdown call and the descriptions
maxCalls == 3 + maxCharacters

\* the calls come in the order of analyzePrompt: complexity, characters, a
\* breakdown when the prompt is multi-scene, then the descriptions, at most
\* one per character and only when consistency is required
CallOrder ==
    /\ Len(calls) >= 1 => kinds[1] = "complexity"
    /\ Len(calls) >= 2 => kinds[2] = "characters"
    /\ Len(calls) >= 3 =>
          kinds[3] = IF complexityAnalysis.isMultiScene THEN "breakdown" ELSE "description"
    /\ \A k \in 4..Len(calls) : kinds[k] = "description"
    /\ countOf("description") > 0 =>
          /\ characterAnalysis.requiresConsistency
          /\ countOf("description") <= Len(characterAnalysis.characters)
    /\ countOf("description") <= maxCharacters
    /\ Len(calls) <= maxCalls

\* when analyzePrompt returns a result of its try block, it has made every
\* call of the sequence, up to the first description call that failed
CallsComplete ==
    (pc = "done" /\ Len(calls) >= 2) =>
        /\ countOf("breakdown") = IF complexityAnalysis.isMultiScene THEN 1 ELSE 0
        /\ (\A k \in DOMAIN calls : calls[k].ok) =>
              countOf("description") =
                  IF characterAnalysis.requiresConsistency
                  THEN Len(characterAnalysis.characters) ELSE 0

\* a step records at most one call, the one that was in flight, and a new
\* call is in flight only after the one before it has settled
OneCallAtATime ==
    calls' # calls =>
        /\ CallInFlight
        /\ Len(calls') = Len(calls) + 1
        /\ SubSeq(calls', 1, Len(calls)) = calls

\* analyzePrompt has resolved to a result
Responded == pc = "done" /\ result # Null

CallsOneAtATime == [][OneCallAtATime]_vars

\* analyzePrompt has returned the result of its try block or of its catch
\* block
Returned == pc \in {"done", "responded"} /\ result # Null

\* POST has answered with the scenes of analyzePrompt
Answered == pc = "responded" /\ response.success

FallbackOutputs ==
    {[isMultiScene |-> FALSE, sceneCount |-> 1, complexity |-> "simple"],
     [isMultiScene |-> TRUE, sceneCount |-> 3, complexity |-> "complex"]}

\* C26: the fallback complexity heuristic returns (false, 1, 'simple') or
\* (true, 3, 'complex') and nothing else: never a sceneCount of 2, 4 or 5,
\* never 'moderate'
C26_FallbackTwoOutputs == ClassifiedFallback => complexityAnalysis \in FallbackOutputs

\* C26 happens: the fallback has split a prompt into more than 3 segments
\* and has returned 3 scenes
C26_Witness ==
    /\ ClassifiedFallback
    /\ stepSplits(sanitizedPrompt) > fallbackScenes
    /\ complexityAnalysis.isMultiScene
    /\ complexityAnalysis.sceneCount = fallbackScenes

\* no scene of sceneCharacterMappings is given a character
NoMappedCharacter(mappings) == \A n \in DOMAIN mappings : mappings[n] = <<>>

\* C27: in every result of analyzePrompt, requiresCharacterConsistency is
\* true exactly when characterDescriptions is non-empty, characterDescriptions
\* has at most 3 entries, and characters that were identified while
\* requiresConsistency is false get no description and no mapping
C27_ConsistencyIffDescriptions ==
    Returned =>
        /\ result.requiresCharacterConsistency <=> result.characterDescriptions # <<>>
        /\ Len(result.characterDescriptions) <= maxCharacters
        /\ ~result.requiresCharacterConsistency =>
              /\ result.characterDescriptions = <<>>
              /\ NoMappedCharacter(result.sceneCharacterMappings)

\* C27 happens: a character was identified, consistency is not required,
\* and the result has a scene, no description and no mapped character
C27_Witness ==
    /\ Returned
    /\ Len(calls) >= 2
    /\ characterAnalysis.characters # <<>>
    /\ ~result.requiresCharacterConsistency
    /\ result.scenes # <<>>
    /\ result.characterDescriptions = <<>>

\* the other side of C27: three characters were described
ThreeDescribed ==
    /\ Returned
    /\ result.requiresCharacterConsistency
    /\ Len(result.characterDescriptions) = maxCharacters

\* the description calls issued so far, in order
descriptionCalls == SelectSeq(calls, LAMBDA call : call.kind = "description")

\* a description call has failed after at least one has succeeded
FailedAfterParsed ==
    /\ pc = "done"
    /\ Len(descriptionCalls) >= 2
    /\ ~descriptionCalls[Len(descriptionCalls)].ok

\* C28: when the description call of the j-th character fails after the
\* descriptions of characters 1..j-1 were obtained, the result has the
\* generic description of every character, not a mix of parsed and generic
\* ones
C28_AllGenericAfterFailure ==
    FailedAfterParsed =>
        /\ Len(result.characterDescriptions) = Len(characterAnalysis.characters)
        /\ \A k \in DOMAIN result.characterDescriptions :
              result.characterDescriptions[k] =
                  createBasicCharacterDescription(characterAnalysis.characters[k], k - 1)

\* C28 happens: the third description call failed after two descriptions
\* were parsed from texts, and the parsed ones differ from the generic ones
C28_Witness ==
    /\ FailedAfterParsed
    /\ Len(descriptionCalls) = 3
    /\ Len(result.characterDescriptions) = 3
    /\ \A k \in 1..2 :
          parseCharacterDescription(characterAnalysis.characters[k],
                                    descriptionCalls[k].text, k - 1)
              # result.characterDescriptions[k]

\* a call of check has just returned: checked is what it returned
CheckReturned == checked' # checked

\* how often a timestamp is in a log
timesIn(log, time) == Cardinality({k \in DOMAIN log : log[k] = time})

\* the effect of one call of check: the logs of the other identifiers are
\* left alone, a denied check records nothing, and remaining is what is left
\* of maxRequests after the stored log (0 when denied)
CheckEffect ==
    CheckReturned =>
        /\ \A other \in Identifiers \ {checked'.identifier} :
              requests'[other] = requests[other]
        /\ ~checked'.info.allowed =>
              /\ Len(requests'[checked'.identifier]) <= Len(requests[checked'.identifier])
              /\ timesIn(requests'[checked'.identifier], now)
                   = timesIn(requests[checked'.identifier], now)
              /\ checked'.info.remaining = 0
        /\ checked'.info.allowed =>
              timesIn(requests'[checked'.identifier], now)
                  = timesIn(requests[checked'.identifier], now) + 1
        /\ checked'.info.remaining = maxRequests - Len(requests'[checked'.identifier])

\* no stored log is longer than maxRequests
LogsBounded == \A identifier \in Identifiers : Len(requests[identifier]) <= maxRequests

\* C29: a denied check records no timestamp, a check leaves the logs of the
\* other identifiers unchanged, every stored log holds at most maxRequests
\* timestamps after any sequence of check and cleanup calls, and the
\* remaining a check returns is maxRequests minus the length of the stored
\* log (0 when denied)
C29_CheckFrame == [][CheckEffect]_vars /\ []LogsBounded

\* C29 happens: a check of one identifier was denied with remaining 0 while
\* the other identifier has a log of its own
C29_Witness ==
    /\ checked # Null
    /\ ~checked.info.allowed
    /\ checked.info.remaining = 0
    /\ Len(requests[checked.identifier]) = maxRequests
    /\ \E other \in Identifiers \ {checked.identifier} : requests[other] # <<>>

\* what check returns does not depend on cleanup: it is what the limiter
\* without cleanup returns for the same calls of check
InfoAgrees == checked # Null => checked.info = checked.uncleanedInfo

\* the two limiters hold the same timestamps of the current window
WindowsAgree ==
    \A identifier \in Identifiers :
        recentRequests(requests[identifier], now - windowMs)
            = recentRequests(uncleaned[identifier], now - windowMs)

\* an identifier has an entry exactly when its log is not empty
TrackedNonEmpty == tracked = {identifier \in Identifiers : requests[identifier] # <<>>}

\* cleanup has just run: the logs have changed and no check has returned
CleanupRan == requests' # requests /\ uncleaned' = uncleaned /\ checked' = checked

\* the effect of cleanup: a log loses its oldest timestamps, all of them
\* outside the window, and keeps the others; an identifier loses its entry
\* only when its log is left empty
CleanupEffect ==
    CleanupRan =>
        /\ \A identifier \in Identifiers :
              \E n \in 0..Len(requests[identifier]) :
                  /\ requests'[identifier]
                       = SubSeq(requests[identifier], n + 1, Len(requests[identifier]))
                  /\ \A k \in 1..n : requests[identifier][k] <= now - windowMs
        /\ tracked' \subseteq tracked
        /\ \A identifier \in tracked \ tracked' : requests'[identifier] = <<>>

\* C30: cleanup is transparent: with a clock that never goes back, every
\* check returns the allowed flag and the remaining that it returns when
\* cleanup never runs; cleanup removes only timestamps that are outside the
\* window and deletes only identifiers whose log is then empty
C30_CleanupTransparent ==
    /\ []InfoAgrees
    /\ []WindowsAgree
    /\ []TrackedNonEmpty
    /\ [][CleanupEffect]_vars

\* C30 happens: cleanup has deleted the entry of an identifier whose log was
\* full, and a check made at the current time has returned
C30_Witness ==
    /\ checked # Null
    /\ checked.info.allowed
    /\ checked.info.resetTime = now + windowMs
    /\ \E identifier \in Identifiers \ tracked :
          /\ Len(uncleaned[identifier]) = maxRequests
          /\ requests[identifier] = <<>>
====
